---------------------------- MODULE Spec2Model ----------------------------
(***************************************************************************)
(* A model of outage-data-ua:                                              *)
(*   scripts/parse_fact.js      the extraction run and the record store    *)
(*   scripts/batch_render.mjs   the render scheduler (runParallel)         *)
(*                                                                         *)
(* Text is a sequence of one-symbol strings.  The lexeme                   *)
(* `DisconSchedule.fact =` is the single symbol "F", and                   *)
(* `DisconSchedule.preset =` is "P".  Indices in results are JavaScript's  *)
(* (0-based, end exclusive).                                               *)
(***************************************************************************)
EXTENDS Integers, Sequences, FiniteSets, TLC

VARIABLES
    html, scanRes,          \* extractDisconObject: its input and its result
    ptext, pres,            \* tryParseObject: its input and its result
    tin, tout,              \* toKyivIso: its input (with what the runtime prints at midnight) and its result
    fs,                     \* the files at args.output and args.output + '.tmp'
    pc,                     \* where the extraction run is: idle, or inside writeFileAtomic
    pending,                \* the record the run is persisting
    runs,                   \* extraction runs completed (also the clock of isoNow)
    last,                   \* history: the run's input, its outcome, the output file it found, the exit status
    seen,                   \* what a reader of args.output last read during the run under way
    mpc,                    \* where the batch's main function is
    nextTask,               \* the task the loop of runParallel takes next
    task,                   \* each task's promise p: new, queued, running, settled, done, rejected
    result,                 \* each task's outcome and how its promise p settled
    executing,              \* the array `executing` (its promises e, by task)
    race,                   \* the Promise.race awaited: none, pending, fulfilled, rejected
    counts,                 \* ok, failed, and how often each task's run() was called
    browser,                \* the shared browser, the error main rethrows, the exit status
    rp,                     \* renderPage and the wrapper around it: each render task's position and locals
    rbrowser,               \* the browser as the render tasks use it, and the scheduler's two counters
    req, resp,              \* the static server: a request and the responses written to it
    dfile, made             \* the task expansion: a data file and the tasks created for it

scanVars == <<html, scanRes>>
parseVars == <<ptext, pres>>
timeVars == <<tin, tout>>
runVars == <<fs, pc, pending, runs, last, seen>>
batchVars == <<mpc, nextTask, task, result, executing, race, counts, browser>>
renderVars == <<rp, rbrowser>>
serverVars == <<req, resp>>
expandVars == <<dfile, made>>
\* the variables of the extraction script and of the scheduler, and the rest
coreVars == <<scanVars, parseVars, timeVars, runVars, batchVars>>
restVars == <<renderVars, serverVars, expandVars>>
vars == <<coreVars, restVars>>

(***************************************************************************)
(* Bounds                                                                  *)
(***************************************************************************)
MaxHtmlLen == 5
MaxTextLen == 4
NumDays == 5
MaxRuns == 3
WriteChunks == 2
NumTasks == 6

(***************************************************************************)
(* Strings                                                                 *)
(***************************************************************************)
\* s[i] of JavaScript: the symbol at 0-based index i ("" stands for undefined)
At(s, i) == IF i >= 0 /\ i < Len(s) THEN s[i + 1] ELSE ""

\* s.slice(a, b) for 0 <= a <= b <= s.length
Slice(s, a, b) == SubSeq(s, a + 1, b)

\* s.indexOf(m): the least 0-based index where m occurs in s, or -1
IndexOf(s, m) ==
    LET hits == {i \in 0..(Len(s) - Len(m)) : Slice(s, i, i + Len(m)) = m}
    IN  IF hits = {} THEN -1 ELSE CHOOSE i \in hits : \A j \in hits : i <= j

\* /\s/.test(ch)
IsSpace(ch) == ch = " "

\* the symbol at 0-based index i lies inside a quoted string ("'" is the quote)
InString(s, i) == Cardinality({j \in 0..(i - 1) : At(s, j) = "'"}) % 2 = 1 /\ At(s, i) # "'"

RECURSIVE SeqsUpTo(_, _)
SeqsUpTo(S, n) ==
    IF n = 0 THEN {<<>>}
    ELSE LET shorter == SeqsUpTo(S, n - 1)
         IN  shorter \cup {Append(s, c) : s \in {t \in shorter : Len(t) = n - 1}, c \in S}

(***************************************************************************)
(* extractDisconObject (parse_fact.js 52-81)                               *)
(***************************************************************************)
Marker(key) == IF key = "fact" THEN <<"F">> ELSE <<"P">>

NoExtract(err) == [error |-> err, jsonLike |-> <<>>, startIndex |-> -1, endIndex |-> -1]

\* line 60: while (i < html.length && /\s/.test(html[i])) i++
RECURSIVE SkipSpace(_, _)
SkipSpace(s, i) == IF i < Len(s) /\ IsSpace(At(s, i)) THEN SkipSpace(s, i + 1) ELSE i

\* lines 71-74: one symbol's effect on the two counters
StepCurly(ch, d) == IF ch = "{" THEN d + 1 ELSE IF ch = "}" THEN d - 1 ELSE d
StepSquare(ch, d) == IF ch = "[" THEN d + 1 ELSE IF ch = "]" THEN d - 1 ELSE d

\* a scan that watches the curly counter alone (mutant of ScanDone)
ScanDoneCurlyOnly(dc, ds) == dc = 0

\* line 75: the test that ends the scan
ScanDone(dc, ds) == dc = 0 /\ ds = 0

\* a scan that leaves out the delimiters inside quoted strings (mutant of ScanFrom)
RECURSIVE ScanFromOutsideStrings(_, _, _, _, _)
ScanFromOutsideStrings(s, start, i, dc, ds) ==
    IF i >= Len(s) THEN NoExtract("unbalanced")
    ELSE LET ch == IF InString(s, i) THEN "x" ELSE At(s, i)
             c2 == StepCurly(ch, dc)
             s2 == StepSquare(ch, ds)
         IN  IF ScanDone(c2, s2)
             THEN [error |-> "", jsonLike |-> Slice(s, start, i + 1),
                   startIndex |-> start, endIndex |-> i + 1]
             ELSE ScanFromOutsideStrings(s, start, i + 1, c2, s2)

\* lines 69-80: the scan loop from index i with the counters' values before it
RECURSIVE ScanFrom(_, _, _, _, _)
ScanFrom(s, start, i, dc, ds) ==
    IF i >= Len(s) THEN NoExtract("unbalanced")
    ELSE LET ch == At(s, i)
             c2 == StepCurly(ch, dc)
             s2 == StepSquare(ch, ds)
         IN  IF ScanDone(c2, s2)
             THEN [error |-> "", jsonLike |-> Slice(s, start, i + 1),
                   startIndex |-> start, endIndex |-> i + 1]
             ELSE ScanFrom(s, start, i + 1, c2, s2)

\* the scan started from the last occurrence of the marker (mutant of extractDisconObject)
extractDisconObjectLast(s, key) ==
    LET hits == {i \in 0..(Len(s) - 1) : At(s, i) = Marker(key)[1]}
        idx == IF hits = {} THEN -1 ELSE CHOOSE i \in hits : \A j \in hits : i >= j
    IN  IF idx = -1 THEN NoExtract("notfound")
        ELSE LET i == SkipSpace(s, idx + Len(Marker(key)))
                 opener == At(s, i)
             IN  IF opener # "{" /\ opener # "[" THEN NoExtract("syntax")
                 ELSE ScanFrom(s, i, i, 0, 0)

\* lines 52-81
extractDisconObject(s, key) ==
    LET idx == IndexOf(s, Marker(key))
    IN  IF idx = -1 THEN NoExtract("notfound")
        ELSE LET i == SkipSpace(s, idx + Len(Marker(key)))
                 opener == At(s, i)
             IN  IF opener # "{" /\ opener # "[" THEN NoExtract("syntax")
                 ELSE ScanFrom(s, i, i, 0, 0)

(***************************************************************************)
(* The time normalizer (parse_fact.js 152-195)                             *)
(*                                                                         *)
(* Time is counted in minutes.  A date string is the number of its day on  *)
(* a short calendar, and a timestamp string YYYY-MM-DDTHH:MM:SS+HH:MM is   *)
(* the record of its fields.  The calendar is a year of Europe/Kyiv in     *)
(* small: UTC+2 until 01:00 UTC of SpringDay, UTC+3 from then until 01:00  *)
(* UTC of AutumnDay, UTC+2 after (the transitions of the zone are at 01:00 *)
(* UTC: 03:00 becomes 04:00 in spring, 04:00 becomes 03:00 in autumn).     *)
(***************************************************************************)
DayMinutes == 24 * 60
SpringDay == 2
AutumnDay == 4
SpringForwardUtc == SpringDay * DayMinutes + 60
FallBackUtc == AutumnDay * DayMinutes + 60

\* Date.UTC(Y, M - 1, D, h, m, 0), in minutes
DateUTC(day, h, m) == day * DayMinutes + h * 60 + m

\* the zone's offset from UTC at an instant (the zone data behind Intl.DateTimeFormat)
ZoneOffset(utcTs) == IF utcTs >= SpringForwardUtc /\ utcTs < FallBackUtc THEN 180 ELSE 120

\* lines 155-160: the `hour` part that formatToParts gives under hour12: false.
\* The hour after midnight is printed 00 by a runtime that takes the option
\* for the cycle h23 and 24 by one that takes it for h24 (V8 has done both);
\* tin.midnight is what the runtime at hand prints.
HourPrinted(hour) == IF hour = 0 THEN tin.midnight ELSE hour

\* lines 161-165: the wall clock of the instant read back as UTC, less the instant
tzOffsetMinutes(utcTs) ==
    LET wall == utcTs + ZoneOffset(utcTs)
        asUTC == DateUTC(wall \div DayMinutes, HourPrinted((wall % DayMinutes) \div 60), wall % 60)
    IN  asUTC - utcTs

\* lines 168-177
zonedTimeToUtc(day, h, m) ==
    LET ts == DateUTC(day, h, m)
        off == tzOffsetMinutes(ts)
    IN  ts - off

Abs(n) == IF n < 0 THEN -n ELSE n

\* lines 179-185: sign, hours and minutes of the offset
formatOffset(totalMinutes) ==
    [sign |-> IF totalMinutes >= 0 THEN 1 ELSE -1,
     hh |-> Abs(totalMinutes) \div 60,
     mm |-> Abs(totalMinutes) % 60]

\* lines 187-195: the printed fields are those of utcDate.getUTC*()
toKyivIso(day, h, m) ==
    LET utcDate == zonedTimeToUtc(day, h, m)
        off == tzOffsetMinutes(utcDate)
    IN  [day |-> utcDate \div DayMinutes,
         h |-> (utcDate % DayMinutes) \div 60,
         m |-> utcDate % 60,
         s |-> 0,
         offset |-> formatOffset(off)]

(***************************************************************************)
(* extractGroupsWithIso (parse_fact.js 150, 197-233)                       *)
(*                                                                         *)
(* A value of the data is a record [t, a, b, len]: t is "none" for a       *)
(* missing or falsy value, "date" for a date string of day a, "time" for a *)
(* string of len characters that reads a:b, and "text" for any other       *)
(* truthy value.  An entry of a group's array is [kind, f, iso]: kind as   *)
(* typeof and Array.isArray tell it, f its properties by key, and iso the  *)
(* two timestamps of an entry the function has built (none for an entry of *)
(* the input).  The data is a list of [key, isArray, items], key being     *)
(* "group" for a key groupKeyRe matches.                                   *)
(***************************************************************************)
None == [t |-> "none", a |-> 0, b |-> 0, len |-> 0]
TimeOf(h, m, len) == [t |-> "time", a |-> h, b |-> m, len |-> len]
DateOf(day) == [t |-> "date", a |-> day, b |-> 0, len |-> 10]
Text == [t |-> "text", a |-> 0, b |-> 0, len |-> 1]

DateKeys == <<"date", "day", "d">>
StartKeys == <<"start", "from", "begin", "s">>
EndKeys == <<"end", "to", "finish", "e">>
EntryKeys == {"date", "day", "d", "start", "from", "begin", "s", "end", "to", "finish", "e", "note"}
NoFields == [k \in EntryKeys |-> None]

\* line 150
isObject(x) == x.kind = "object"

\* a || b || ... || null over the properties named by keys
RECURSIVE FirstTruthy(_, _)
FirstTruthy(f, keys) ==
    IF keys = <<>> THEN None
    ELSE IF f[Head(keys)].t # "none" THEN f[Head(keys)]
    ELSE FirstTruthy(f, Tail(keys))

\* line 214: /^\d{1,2}:\d{2}$/.test(v)
timeRe(v) == v.t = "time" /\ v.len \in {4, 5}

\* lines 217-218: if (start.length === 4) start = '0' + start
Pad(v) == IF v.len = 4 THEN [v EXCEPT !.len = 5] ELSE v

\* toKyivIso(String(date), String(time)) throws: Date.UTC gives NaN for a
\* text that is no date, and formatToParts refuses an invalid Date
Throws(date, time) == date.t # "date"

\* the entry built at line 222
IsoEntry(date, start, end) ==
    [kind |-> "object",
     f |-> [k \in EntryKeys |-> IF k = "date" THEN date ELSE None],
     iso |-> <<toKyivIso(date.a, start.a, start.b), toKyivIso(date.a, end.a, end.b)>>]

\* toKyivIso is called outside the try block: what it throws leaves the
\* function (mutant of MapEntry)
MapEntryNoCatch(entry) ==
    LET date == FirstTruthy(entry.f, DateKeys)
        start == FirstTruthy(entry.f, StartKeys)
        end == FirstTruthy(entry.f, EndKeys)
    IN  IF isObject(entry) /\ date.t # "none" /\ start.t # "none" /\ end.t # "none"
           /\ timeRe(start) /\ timeRe(end)
        THEN IF Throws(date, Pad(start)) THEN [kind |-> "thrown", f |-> NoFields, iso |-> <<>>]
             ELSE IsoEntry(date, Pad(start), Pad(end))
        ELSE entry

\* lines 209-228: what is pushed to items for one entry
MapEntry(entry) ==
    LET date == FirstTruthy(entry.f, DateKeys)
        start == FirstTruthy(entry.f, StartKeys)
        end == FirstTruthy(entry.f, EndKeys)
    IN  IF isObject(entry) /\ date.t # "none" /\ start.t # "none" /\ end.t # "none"
           /\ timeRe(start) /\ timeRe(end) /\ ~Throws(date, Pad(start))
        THEN IsoEntry(date, Pad(start), Pad(end))
        ELSE entry

\* lines 203-230: the keys of out, in the order of Object.keys(data)
RECURSIVE MapKeys(_)
MapKeys(pairs) ==
    IF pairs = <<>> THEN <<>>
    ELSE LET p == Head(pairs)
         IN  IF p.key # "group" THEN MapKeys(Tail(pairs))
             ELSE IF ~p.isArray THEN <<p>> \o MapKeys(Tail(pairs))
             ELSE <<[p EXCEPT !.items = [i \in 1..Len(p.items) |-> MapEntry(p.items[i])]]>>
                  \o MapKeys(Tail(pairs))

\* lines 197-233; an error that leaves the loop leaves the function
extractGroupsWithIso(data) ==
    IF data.kind # "object" THEN [kind |-> "null", pairs |-> <<>>]
    ELSE LET out == MapKeys(data.pairs)
         IN  IF \E i \in 1..Len(out) : \E j \in 1..Len(out[i].items) :
                    out[i].items[j].kind = "thrown"
             THEN [kind |-> "thrown", pairs |-> <<>>]
             ELSE IF out = <<>> THEN [kind |-> "null", pairs |-> <<>>]
             ELSE [kind |-> "object", pairs |-> out]

(***************************************************************************)
(* tryParseObject (parse_fact.js 83-96)                                    *)
(*                                                                         *)
(* The lexemes of a literal are single symbols:                            *)
(*   "K"  a quoted key and its colon        "a":                           *)
(*   "U"  an unquoted key and its colon     a:     (not JSON)              *)
(*   "1"  a number                          "0"  null                      *)
(*   "n"  a BigInt, 1n                             (not JSON)              *)
(*   "e"  a call that ends the process, process.exit(3)   (not JSON)       *)
(*   "x"  text neither mode accepts                                        *)
(* and two key symbols of one object stand for two different keys.  A      *)
(* decoded value is written as the symbols of its members in order, with   *)
(* no whitespace, every key as "K", no trailing comma and "h" for an       *)
(* array hole.                                                             *)
(***************************************************************************)
StripSpace(s) == SelectSeq(s, LAMBDA c : ~IsSpace(c))
Front(s) == SubSeq(s, 1, Len(s) - 1)

PFail == [ok |-> FALSE, next |-> 0, val |-> <<>>]
POk(n, v) == [ok |-> TRUE, next |-> n, val |-> v]

\* One value at index i of the whitespace-free text s, in mode "json"
\* (JSON.parse) or "eval" (a JavaScript expression): the index after it and
\* the decoded value.
RECURSIVE PValue(_, _, _)
RECURSIVE PMembers(_, _, _, _)
RECURSIVE PElems(_, _, _, _)
PValue(m, s, i) ==
    LET ch == At(s, i)
    IN  IF ch = "1" \/ ch = "0" THEN POk(i + 1, <<ch>>)
        ELSE IF ch = "n" /\ m = "eval" THEN POk(i + 1, <<"n">>)
        ELSE IF ch = "e" /\ m = "eval" THEN POk(i + 1, <<"e">>)
        ELSE IF ch = "{" THEN PMembers(m, s, i + 1, <<"{">>)
        ELSE IF ch = "[" THEN PElems(m, s, i + 1, <<"[">>)
        ELSE PFail

\* the members of an object from index i; acc holds the value so far
PMembers(m, s, i, acc) ==
    LET ch == At(s, i)
    IN  IF ch = "}"
        THEN IF Len(acc) = 1 THEN POk(i + 1, acc \o <<"}">>)
             ELSE IF m = "eval" THEN POk(i + 1, Front(acc) \o <<"}">>)  \* trailing comma
             ELSE PFail
        ELSE IF ch = "K" \/ (ch = "U" /\ m = "eval")
        THEN LET v == PValue(m, s, i + 1)
             IN  IF ~v.ok THEN PFail
                 ELSE IF At(s, v.next) = ","
                      THEN PMembers(m, s, v.next + 1, acc \o <<"K">> \o v.val \o <<",">>)
                 ELSE IF At(s, v.next) = "}"
                      THEN POk(v.next + 1, acc \o <<"K">> \o v.val \o <<"}">>)
                 ELSE PFail
        ELSE PFail

\* the elements of an array from index i; acc holds the value so far
PElems(m, s, i, acc) ==
    LET ch == At(s, i)
    IN  IF ch = "]"
        THEN IF Len(acc) = 1 THEN POk(i + 1, acc \o <<"]">>)
             ELSE IF m = "eval" THEN POk(i + 1, Front(acc) \o <<"]">>)  \* trailing comma
             ELSE PFail
        ELSE IF ch = ","
        THEN IF m = "eval" THEN PElems(m, s, i + 1, acc \o <<"h", ",">>)  \* a hole
             ELSE PFail
        ELSE LET v == PValue(m, s, i)
             IN  IF ~v.ok THEN PFail
                 ELSE IF At(s, v.next) = ","
                      THEN PElems(m, s, v.next + 1, acc \o v.val \o <<",">>)
                 ELSE IF At(s, v.next) = "]"
                      THEN POk(v.next + 1, acc \o v.val \o <<"]">>)
                 ELSE PFail

\* the whole text as one value: [ok, value]
Decode(m, text) ==
    LET s == StripSpace(text)
        r == PValue(m, s, 0)
    IN  IF r.ok /\ r.next = Len(s) THEN [ok |-> TRUE, value |-> r.val]
        ELSE [ok |-> FALSE, value |-> <<>>]

\* line 86: JSON.parse(text)
JSONparse(text) == Decode("json", text)
\* line 91: Function('"use strict"; return (' + text + ');')()
FunctionEval(text) == Decode("eval", text)

\* line 91: the function is compiled from the whole text and then called; a
\* call of process.exit in the literal ends the process there (the function
\* has the global scope of the script)
EndsProcess(text) ==
    /\ ~JSONparse(text).ok /\ FunctionEval(text).ok
    /\ \E i \in 1..Len(FunctionEval(text).value) : FunctionEval(text).value[i] = "e"

\* `tried` lists the decoders that were run, in order
Parsed(v, method, tried) == [error |-> "", value |-> v, method |-> method, tried |-> tried]
ParseFailed(tried) == [error |-> "Failed to parse object", value |-> <<>>, method |-> "", tried |-> tried]

\* the permissive evaluation first, strict decoding as the fallback (mutant of tryParseObject)
tryParseObjectEvalFirst(text) ==
    IF FunctionEval(text).ok THEN Parsed(FunctionEval(text).value, "eval", <<"eval">>)
    ELSE IF JSONparse(text).ok THEN Parsed(JSONparse(text).value, "json", <<"eval", "json">>)
    ELSE ParseFailed(<<"eval", "json">>)

tryParseObject(text) ==
    IF JSONparse(text).ok THEN Parsed(JSONparse(text).value, "json", <<"json">>)
    ELSE IF FunctionEval(text).ok THEN Parsed(FunctionEval(text).value, "eval", <<"json", "eval">>)
    ELSE ParseFailed(<<"json", "eval">>)

(***************************************************************************)
(* The record store (parse_fact.js 36-50, 98-148, 235-255)                 *)
(*                                                                         *)
(* null is "" for a string, 0 for a number or a time and <<>> for a value. *)
(* A file is [kind, data, written]: absent, or text; the text of a record  *)
(* is complete once `written` chunks of it, WriteChunks in all, are in the *)
(* file, and text with no record in it (data = <<>>) does not parse.       *)
(***************************************************************************)
Absent == [kind |-> "absent", data |-> <<>>, written |-> 0]
Corrupt == [kind |-> "text", data |-> <<>>, written |-> WriteChunks]
TextOf(rec, k) == [kind |-> "text", data |-> <<rec>>, written |-> k]
FileOf(rec) == TextOf(rec, WriteChunks)

\* JSON.parse of a file's content succeeds on the complete text of a record
Parses(file) == file.kind = "text" /\ file.data # <<>> /\ file.written = WriteChunks

\* lines 98-104: the record, or null (<<>>) when the file is absent or does not parse
loadExisting(file) == IF Parses(file) THEN file.data ELSE <<>>

\* lines 48-50, with the digest taken for the data it is computed from
sha256(data) == <<"sha256">> \o data

\* lines 113-123: the fallback template (data/_template.json has the same shape)
FallbackTemplate(regionId) ==
    [regionId |-> regionId, lastUpdated |-> 0, fact |-> <<>>, preset |-> <<>>,
     lastUpdateStatus |-> [status |-> "idle", ok |-> TRUE, code |-> 0, message |-> "",
                           at |-> 0, attempt |-> 0],
     meta |-> [schemaVersion |-> "1.0.0", contentHash |-> <<>>]]

\* the template as it is in the file, its regionId not applied (mutant of loadTemplateBase)
loadTemplateBaseAsIs(regionId) == FallbackTemplate("")

\* lines 106-128
loadTemplateBase(regionId) == FallbackTemplate(regionId)

\* the attempt counter restarted on every run (mutant of prevAttemptOf)
prevAttemptZero(existing) == 0

\* lines 134 and 324: the attempt of the record found, 0 when there is none
prevAttemptOf(existing) ==
    IF existing = <<>> THEN 0 ELSE existing[1].lastUpdateStatus.attempt

\* an error status that still reports ok (mutant of ErrorStatus)
ErrorStatusOk(code, message, now, attempt) ==
    [status |-> "error", ok |-> TRUE, code |-> code, message |-> message,
     at |-> now, attempt |-> attempt]

\* lines 135-142
ErrorStatus(code, message, now, attempt) ==
    [status |-> "error", ok |-> FALSE, code |-> code, message |-> message,
     at |-> now, attempt |-> attempt]

\* the error status written onto a fresh template (mutant of updateStatusOnError)
updateStatusOnErrorFresh(existing, regionId, code, message, now) ==
    [loadTemplateBase(regionId) EXCEPT
        !.lastUpdateStatus = ErrorStatus(code, message, now, prevAttemptOf(existing) + 1)]

\* lines 130-148
updateStatusOnError(existing, regionId, code, message, now) ==
    LET base == IF existing # <<>> THEN existing[1] ELSE loadTemplateBase(regionId)
        prevAttempt == prevAttemptOf(<<base>>)
    IN  [base EXCEPT
            !.lastUpdateStatus = ErrorStatus(code, message, now, prevAttempt + 1),
            !.meta.schemaVersion = IF @ = "" THEN "1.0.0" ELSE @]

\* lines 325-332
ParsedStatus(now, attempt) ==
    [status |-> "parsed", ok |-> TRUE, code |-> 200, message |-> "",
     at |-> now, attempt |-> attempt]

\* lines 235-255
buildOutput(regionId, factObj, presetObj, now) ==
    [regionId |-> regionId, lastUpdated |-> now, fact |-> factObj, preset |-> presetObj,
     lastUpdateStatus |-> ParsedStatus(now, 1),
     meta |-> [schemaVersion |-> "1.0.0", contentHash |-> <<>>]]

\* JSON.stringify throws on a BigInt
StringifyThrows(value) == \E i \in 1..Len(value) : value[i] = "n"
\* the value JSON.stringify writes: an array hole is written as null ("0")
Stringified(value) == [i \in 1..Len(value) |-> IF value[i] = "h" THEN "0" ELSE value[i]]
\* the record read back from the text JSON.stringify(rec) (lines 277, 339)
Persisted(rec) == [rec EXCEPT !.fact = Stringified(@), !.preset = Stringified(@)]

(***************************************************************************)
(* main and the crash handler (parse_fact.js 264-363)                      *)
(*                                                                         *)
(* An input is [kind, html]: the file at args.input is missing, is there   *)
(* but cannot be read (readFileSync throws), or holds html.                *)
(***************************************************************************)
Region == "region"

RunOf(outcome, rec, presetFailed) ==
    [outcome |-> outcome, rec |-> Persisted(rec), presetFailed |-> presetFailed]

\* the fact text alone (mutant of hashInput)
hashInputFactOnly(factExt, presetExt) == factExt.jsonLike

\* line 335
hashInput(factExt, presetExt) ==
    factExt.jsonLike \o <<"|">> \o (IF presetExt.error # "" THEN <<>> ELSE presetExt.jsonLike)

\* lines 344-362: the handler of an error thrown by main
CrashHandler(existing, now) ==
    RunOf("crash", updateStatusOnError(existing, Region, 500, "parse_fact crashed", now), FALSE)

\* lines 264-342 as far as the call of writeFileAtomic: the record to persist
\* and, for the history, which way the run went ("ended": the process was
\* ended inside tryParseObject and nothing is persisted)
main(input, outFile, now) ==
    LET existing == loadExisting(outFile)
        factExt == extractDisconObject(input.html, "fact")
        presetExt == extractDisconObject(input.html, "preset")
        factParsed == tryParseObject(factExt.jsonLike)
        pp == tryParseObject(presetExt.jsonLike)
        presetParsed == IF presetExt.error = "" /\ pp.error = "" THEN pp.value ELSE <<>>
        outObj == [buildOutput(Region, factParsed.value, presetParsed, now) EXCEPT
                      !.lastUpdateStatus = ParsedStatus(now, prevAttemptOf(existing) + 1),
                      !.meta.contentHash = sha256(hashInput(factExt, presetExt))]
    IN  IF input.kind = "missing"
        THEN RunOf("missing", updateStatusOnError(existing, Region, 404, "Input not found", now), FALSE)
        ELSE IF input.kind = "unreadable" THEN CrashHandler(existing, now)
        ELSE IF factExt.error # ""
        THEN RunOf("extract", updateStatusOnError(existing, Region, 422, factExt.error, now), FALSE)
        ELSE IF EndsProcess(factExt.jsonLike) THEN RunOf("ended", FallbackTemplate(""), FALSE)
        ELSE IF factParsed.error # ""
        THEN RunOf("parse", updateStatusOnError(existing, Region, 422, factParsed.error, now), FALSE)
        ELSE IF presetExt.error = "" /\ EndsProcess(presetExt.jsonLike)
        THEN RunOf("ended", FallbackTemplate(""), FALSE)
        ELSE IF StringifyThrows(outObj.fact) \/ StringifyThrows(outObj.preset)
        THEN CrashHandler(existing, now)
        ELSE RunOf("success", outObj, presetExt.error = "" /\ pp.error # "")

HtmlInputs ==
    { <<"x">>,                                          \* no marker
      <<"F", " ", "x">>,                                \* marker, no opener
      <<"F", "{", "K", "1">>,                           \* unbalanced
      <<"F", "{", "x", "}">>,                           \* fact unparseable
      <<"F", "{", "K", "1", "}">>,                      \* fact alone, strict
      <<"F", "{", "U", "1", ",", "}">>,                 \* fact alone, permissive
      <<"F", "[", "1", ",", "]", "P", "{", "U", "1", "}">>,   \* both, permissive
      <<"F", "{", "K", "1", "}", "P", "{", "x", "}">>,  \* preset unparseable
      <<"F", "{", "}", "P", "x">>,                      \* preset marker, no opener
      <<"F", "[", "n", "]">>,                           \* a value JSON.stringify rejects
      <<"F", "[", ",", "]", "P", "[", "1", "]">>,       \* an array hole
      <<"F", "{", "U", "e", "}">> }                     \* a literal that calls process.exit

Inputs ==
    {[kind |-> "missing", html |-> <<>>], [kind |-> "unreadable", html |-> <<>>]}
        \cup {[kind |-> "file", html |-> h] : h \in HtmlInputs}

\* the temporary file is the output file itself (mutant of TmpPath)
TmpPathSame(file) == file

\* line 39: file + '.tmp'
TmpPath(file) == "tmp"

\* line 41: fs.renameSync(from, to)
renameSync(files, from, to) ==
    IF from = to THEN files ELSE [files EXCEPT ![to] = files[from], ![from] = Absent]

(***************************************************************************)
(* The values of the variables a specification does not use                *)
(***************************************************************************)
NoResult == NoExtract("none")
NotParsed == [error |-> "none", value |-> <<>>, method |-> "", tried |-> <<>>]
NoTime == [day |-> -1, h |-> 0, m |-> 0, s |-> 0, offset |-> [sign |-> 0, hh |-> 0, mm |-> 0]]
NoTimeIn == [day |-> -1, h |-> 0, m |-> 0, midnight |-> 0]

IdleScan == html = <<>> /\ scanRes = NoResult
IdleParse == ptext = <<>> /\ pres = NotParsed
IdleTime == tin = NoTimeIn /\ tout = NoTime
NoRun == [outcome |-> "none", rec |-> FallbackTemplate(""), presetFailed |-> FALSE]
NoLast == [outcome |-> "none", before |-> Absent, presetFailed |-> FALSE,
           html |-> <<>>, args |-> "none", exit |-> -1]
NotSeen == [file |-> Absent, before |-> Absent, new |-> Absent, writing |-> FALSE]
IdleRun ==
    /\ fs = [out |-> Absent, tmp |-> Absent]
    /\ pc = "idle" /\ pending = NoRun /\ runs = 0 /\ last = NoLast /\ seen = NotSeen
IdleBatch ==
    /\ mpc = "idle" /\ nextTask = 0 /\ task = <<>> /\ result = <<>> /\ executing = <<>>
    /\ race = [state |-> "none", among |-> {}]
    /\ counts = [ok |-> 0, failed |-> 0, calls |-> <<>>]
    /\ browser = [state |-> "none", server |-> "none", closes |-> 0,
                  thrown |-> FALSE, exit |-> -1]

IdleCore == IdleScan /\ IdleParse /\ IdleTime /\ IdleRun /\ IdleBatch
IdleRender == rp = <<>> /\ rbrowser = [state |-> "none", created |-> 0, open |-> 0, ok |-> 0, failed |-> 0]
NoRequest == [url |-> <<>>, at |-> [kind |-> "missing", data |-> ""], pc |-> "none", abs |-> <<>>]
IdleServer == req = NoRequest /\ resp = <<>>
NoDataFile == [kind |-> "none"]
NoTasks == [done |-> FALSE, tasks |-> <<>>]
IdleExpand == dfile = NoDataFile /\ made = NoTasks
IdleRest == IdleRender /\ IdleServer /\ IdleExpand

(***************************************************************************)
(* The scan specification: every text up to MaxHtmlLen, and the literals   *)
(* that hold a string with a delimiter in it, then one call                *)
(***************************************************************************)
ScanAlphabet == {"F", " ", "{", "}", "[", "]", "x"}

\* Literals with one quoted string ("'" is the quote) that holds one
\* delimiter: alone in the literal, inside a nested literal, or before one;
\* after the literal the page goes on with nothing, a delimiter or other text.
Delimiters == {"{", "}", "[", "]"}
Wrap(o, body) == <<o>> \o body \o <<IF o = "{" THEN "}" ELSE "]">>
Quoted(d) == <<"'", d, "'">>
StringedLiterals ==
    {Wrap(o, Quoted(d)) : o \in {"{", "["}, d \in Delimiters}
    \cup {Wrap(o[1], Wrap(o[2], Quoted(d))) : o \in {"{", "["} \X {"{", "["}, d \in Delimiters}
    \cup {Wrap(o[1], Quoted(d) \o Wrap(o[2], <<>>)) : o \in {"{", "["} \X {"{", "["}, d \in Delimiters}
StringedTails == {<<>>, <<"}">>, <<"]">>, <<"x">>}
StringedHtmls == {<<"F">> \o lit \o tail : lit \in StringedLiterals, tail \in StringedTails}

InitScan ==
    /\ html \in SeqsUpTo(ScanAlphabet, MaxHtmlLen) \cup StringedHtmls
    /\ scanRes = NoResult
    /\ IdleParse /\ IdleTime /\ IdleRun /\ IdleBatch /\ IdleRest

Extract ==
    /\ scanRes = NoResult
    /\ scanRes' = extractDisconObject(html, "fact")
    /\ UNCHANGED <<html, parseVars, timeVars, runVars, batchVars, restVars>>

NextScan == Extract

SpecScan == InitScan /\ [][NextScan]_vars

(***************************************************************************)
(* The parse specification: every text up to MaxTextLen, then one call     *)
(***************************************************************************)
ParseAlphabet == {"{", "}", "[", "]", ",", "K", "U", "1", "n", " "}

InitParse ==
    /\ ptext \in SeqsUpTo(ParseAlphabet, MaxTextLen)
    /\ pres = NotParsed
    /\ IdleScan /\ IdleTime /\ IdleRun /\ IdleBatch /\ IdleRest

TryParse ==
    /\ pres = NotParsed
    /\ pres' = tryParseObject(ptext)
    /\ UNCHANGED <<ptext, scanVars, timeVars, runVars, batchVars, restVars>>

NextParse == TryParse

SpecParse == InitParse /\ [][NextParse]_vars

(***************************************************************************)
(* The time specification: every date of the calendar and every half hour  *)
(***************************************************************************)
InitTime ==
    /\ tin \in [day : 1..NumDays, h : 0..23, m : {0, 30}, midnight : {0, 24}]
    /\ tout = NoTime
    /\ IdleScan /\ IdleParse /\ IdleRun /\ IdleBatch /\ IdleRest

Normalize ==
    /\ tout = NoTime
    /\ tout' = toKyivIso(tin.day, tin.h, tin.m)
    /\ UNCHANGED <<tin, scanVars, parseVars, runVars, batchVars, restVars>>

NextTime == Normalize

SpecTime == InitTime /\ [][NextTime]_vars

(***************************************************************************)
(* The run specification: up to MaxRuns extraction runs on one output      *)
(* file, one after the other, and a reader of the output file.             *)
(* writeFileAtomic is taken a system call at a time: writeFileSync opens   *)
(* (and truncates) its file and writes it chunk by chunk, then renameSync. *)
(***************************************************************************)
OutPath == "out"

InitRun ==
    /\ fs \in {[out |-> f, tmp |-> Absent] : f \in {Absent, Corrupt}}
    /\ pc = "idle" /\ pending = NoRun /\ runs = 0 /\ last = NoLast /\ seen = NotSeen
    /\ IdleScan /\ IdleParse /\ IdleTime /\ IdleBatch /\ IdleRest

\* main up to the call of writeFileAtomic (or the crash handler up to its call)
StartRun ==
    /\ pc = "idle" /\ runs < MaxRuns
    /\ \E input \in Inputs :
          LET run == main(input, fs[OutPath], runs + 1)
          IN  IF run.outcome = "ended"
              THEN /\ last' = [last EXCEPT !.args = "given", !.exit = 3]  \* process.exit(3)
                   /\ UNCHANGED <<pending, pc>>
              ELSE /\ pending' = run
                   /\ last' = [outcome |-> run.outcome, before |-> fs[OutPath],
                               presetFailed |-> run.presetFailed,
                               html |-> input.html, args |-> "given", exit |-> -1]
                   /\ pc' = "open"
    /\ UNCHANGED <<fs, runs, seen, scanVars, parseVars, timeVars, batchVars, restVars>>

\* lines 265-269: a required argument is missing, process.exit(2)
UsageError ==
    /\ pc = "idle"
    /\ last' = [last EXCEPT !.args = "missing", !.exit = 2]
    /\ UNCHANGED <<fs, pc, pending, runs, seen, scanVars, parseVars, timeVars, batchVars, restVars>>

\* line 40, fs.writeFileSync(tmp, content): the file is created or truncated
WriteOpen ==
    /\ pc = "open"
    /\ fs' = [fs EXCEPT ![TmpPath(OutPath)] = TextOf(pending.rec, 0)]
    /\ pc' = "write"
    /\ UNCHANGED <<pending, runs, last, seen, scanVars, parseVars, timeVars, batchVars, restVars>>

\* line 40, fs.writeFileSync(tmp, content): one more chunk is in the file
WriteChunk ==
    /\ pc = "write"
    /\ LET tmp == TmpPath(OutPath)
       IN  /\ fs' = [fs EXCEPT ![tmp].written = @ + 1]
           /\ pc' = IF fs[tmp].written + 1 = WriteChunks THEN "rename" ELSE "write"
    /\ UNCHANGED <<pending, runs, last, seen, scanVars, parseVars, timeVars, batchVars, restVars>>

\* line 41, fs.renameSync(tmp, file), and the process exits: process.exit(0)
\* of lines 278, 290, 302 and 361, or the end of main
Rename ==
    /\ pc = "rename"
    /\ fs' = renameSync(fs, TmpPath(OutPath), OutPath)
    /\ pc' = "idle" /\ runs' = runs + 1 /\ pending' = NoRun
    /\ last' = [last EXCEPT !.exit = 0]
    /\ seen' = NotSeen
    /\ UNCHANGED <<scanVars, parseVars, timeVars, batchVars, restVars>>

\* another process reads the output file while a run is under way
Read ==
    /\ pc # "idle"
    /\ seen' = [file |-> fs[OutPath], before |-> last.before,
                new |-> FileOf(pending.rec), writing |-> pc \in {"write", "rename"}]
    /\ UNCHANGED <<fs, pc, pending, runs, last, scanVars, parseVars, timeVars, batchVars, restVars>>

NextRun == StartRun \/ UsageError \/ WriteOpen \/ WriteChunk \/ Rename \/ Read

SpecRun == InitRun /\ [][NextRun]_vars

(***************************************************************************)
(* The render scheduler (batch_render.mjs 207-220, 392-417)                *)
(*                                                                         *)
(* main runs to its next await in one piece; while it is suspended the     *)
(* jobs of the event loop (a task's start, its end, the reaction of its    *)
(* promise e) run one at a time, in any order.  A task is                  *)
(*   new       not yet taken by the loop of runParallel                    *)
(*   queued    p = Promise.resolve().then(() => task()) is made            *)
(*   running   task() has been called and awaits t.run()                   *)
(*   settled   p is settled, the reaction e = p.then(...) has not run      *)
(*   done      the reaction has run and has spliced e out of executing     *)
(*   rejected  p was rejected, so e is rejected and stays in executing     *)
(***************************************************************************)
Concurrency == 4
Tasks == 1..NumTasks

\* a task whose failure rejects its promise: no try/catch (mutant of WrapperSettles)
UnwrappedSettles(outcome) == IF outcome = "ok" THEN "fulfilled" ELSE "rejected"

\* lines 399-407: the wrapper catches the failure, its promise is fulfilled either way
WrapperSettles(outcome) == "fulfilled"

\* the loop waits only above the ceiling (mutant of ShouldAwait)
ShouldAwaitAbove(len) == len > Concurrency

\* line 215: executing.length >= concurrency
ShouldAwait(len) == len >= Concurrency

\* line 213: executing.splice(executing.indexOf(e), 1); splice(-1, 1) removes the last
Splice(arr, t) ==
    LET idx == IndexOf(arr, <<t>>)
        at == IF idx = -1 THEN Len(arr) - 1 ELSE idx
    IN  IF arr = <<>> THEN arr ELSE Slice(arr, 0, at) \o Slice(arr, at + 1, Len(arr))

Range(f) == {f[i] : i \in DOMAIN f}

\* main is at an await: the jobs of the event loop may run
Suspended == mpc \in {"race", "all", "closing"}

InitBatch ==
    /\ mpc = "loop" /\ nextTask = 1
    /\ task = [t \in Tasks |-> "new"]
    /\ result = [t \in Tasks |-> [outcome |-> "none", p |-> "pending"]]
    /\ executing = <<>>
    /\ race = [state |-> "none", among |-> {}]
    /\ counts = [ok |-> 0, failed |-> 0, calls |-> [t \in Tasks |-> 0]]
    /\ browser = [state |-> "open", server |-> "listening", closes |-> 0,
                  thrown |-> FALSE, exit |-> -1]
    /\ IdleScan /\ IdleParse /\ IdleTime /\ IdleRun /\ IdleRest

\* lines 210-217: one turn of the loop, as far as the await of Promise.race
LoopTurn ==
    /\ mpc = "loop" /\ nextTask <= NumTasks
    /\ task' = [task EXCEPT ![nextTask] = "queued"]
    /\ executing' = Append(executing, nextTask)
    /\ nextTask' = nextTask + 1
    /\ IF ShouldAwait(Len(executing'))
       THEN /\ mpc' = "race"
            /\ race' = [state |-> IF \E t \in Range(executing') : task[t] = "rejected"
                                  THEN "rejected" ELSE "pending",
                        among |-> Range(executing')]
       ELSE UNCHANGED <<mpc, race>>
    /\ UNCHANGED <<result, counts, browser, scanVars, parseVars, timeVars, runVars, restVars>>

\* line 219: the loop is over, main awaits Promise.all(results)
LoopEnd ==
    /\ mpc = "loop" /\ nextTask > NumTasks
    /\ mpc' = "all"
    /\ UNCHANGED <<nextTask, task, result, executing, race, counts, browser,
                   scanVars, parseVars, timeVars, runVars, restVars>>

\* line 211: the job of Promise.resolve().then calls task(), which calls t.run() (line 401)
TaskStart(t) ==
    /\ Suspended /\ task[t] = "queued"
    /\ task' = [task EXCEPT ![t] = "running"]
    /\ counts' = [counts EXCEPT !.calls[t] = @ + 1]
    /\ UNCHANGED <<mpc, nextTask, result, executing, race, browser,
                   scanVars, parseVars, timeVars, runVars, restVars>>

\* lines 400-406: t.run() ends, with a result or with an error, and p settles
TaskEnd(t, outcome) ==
    /\ Suspended /\ task[t] = "running"
    /\ task' = [task EXCEPT ![t] = "settled"]
    /\ result' = [result EXCEPT ![t] = [outcome |-> outcome, p |-> WrapperSettles(outcome)]]
    /\ counts' = IF outcome = "ok" THEN [counts EXCEPT !.ok = @ + 1]
                 ELSE [counts EXCEPT !.failed = @ + 1]
    /\ UNCHANGED <<mpc, nextTask, executing, race, browser,
                   scanVars, parseVars, timeVars, runVars, restVars>>

\* line 213: the reaction e = p.then(() => executing.splice(...)); a race e is in settles
Reaction(t) ==
    /\ Suspended /\ task[t] = "settled"
    /\ IF result[t].p = "fulfilled"
       THEN /\ task' = [task EXCEPT ![t] = "done"]
            /\ executing' = Splice(executing, t)
       ELSE /\ task' = [task EXCEPT ![t] = "rejected"]
            /\ UNCHANGED executing
    /\ race' = IF race.state = "pending" /\ t \in race.among
               THEN [race EXCEPT !.state = result[t].p]
               ELSE race
    /\ UNCHANGED <<mpc, nextTask, result, counts, browser,
                   scanVars, parseVars, timeVars, runVars, restVars>>

\* line 216: await Promise.race(executing) returns, or throws out of runParallel
RaceResume ==
    /\ mpc = "race" /\ race.state \in {"fulfilled", "rejected"}
    /\ mpc' = IF race.state = "fulfilled" THEN "loop" ELSE "finally"
    /\ browser' = [browser EXCEPT !.thrown = (race.state = "rejected")]
    /\ race' = [state |-> "none", among |-> {}]
    /\ UNCHANGED <<nextTask, task, result, executing, counts,
                   scanVars, parseVars, timeVars, runVars, restVars>>

\* runParallel returns the array of promises as it is, and the await of an
\* array does not wait for its members (mutant of AllResume)
AllResumeEarly ==
    /\ mpc = "all"
    /\ mpc' = "finally"
    /\ browser' = [browser EXCEPT !.thrown = FALSE]
    /\ UNCHANGED <<nextTask, task, result, executing, race, counts,
                   scanVars, parseVars, timeVars, runVars, restVars>>

\* lines 219 and 410: await of Promise.all(results) returns, or throws
AllResume ==
    /\ mpc = "all"
    /\ \/ \A t \in Tasks : result[t].p = "fulfilled"
       \/ \E t \in Tasks : result[t].p = "rejected"
    /\ mpc' = "finally"
    /\ browser' = [browser EXCEPT !.thrown = \E t \in Tasks : result[t].p = "rejected"]
    /\ UNCHANGED <<nextTask, task, result, executing, race, counts,
                   scanVars, parseVars, timeVars, runVars, restVars>>

\* lines 411-414: finally { await browser.close(); server.close() }
Finally ==
    /\ mpc = "finally"
    /\ browser' = [browser EXCEPT !.state = "closed", !.closes = @ + 1]
    /\ mpc' = "closing"
    /\ UNCHANGED <<nextTask, task, result, executing, race, counts,
                   scanVars, parseVars, timeVars, runVars, restVars>>

\* an exit status that ignores the failures (mutant of ExitStatus)
ExitStatusZero(failed) == 0

\* line 417: process.exit(failed > 0 ? 1 : 0)
ExitStatus(failed) == IF failed > 0 THEN 1 ELSE 0

\* lines 413-417: server.close(), the summary and process.exit (an error
\* rethrown by the finally block ends the process with status 1)
Exit ==
    /\ mpc = "closing"
    /\ mpc' = "exited"
    /\ browser' = [browser EXCEPT !.server = "closed",
                                  !.exit = IF browser.thrown THEN 1 ELSE ExitStatus(counts.failed)]
    /\ UNCHANGED <<nextTask, task, result, executing, race, counts,
                   scanVars, parseVars, timeVars, runVars, restVars>>

NextBatch ==
    \/ LoopTurn \/ LoopEnd \/ RaceResume \/ AllResume \/ Finally \/ Exit
    \/ \E t \in Tasks : TaskStart(t) \/ Reaction(t)
    \/ \E t \in Tasks, outcome \in {"ok", "failed"} : TaskEnd(t, outcome)

SpecBatch == InitBatch /\ [][NextBatch]_vars

(***************************************************************************)
(* Nesting, defined with a stack and without the two counters              *)
(***************************************************************************)
IsOpener(ch) == ch \in {"{", "["}
IsCloser(ch) == ch \in {"}", "]"}
CloserOf(ch) == IF ch = "{" THEN "}" ELSE "]"

\* The 0-based index of the closer that matches the opener at `i` (the stack
\* holds the closers still owed), or -1 when a closer does not match the
\* innermost open delimiter or the text ends first.
RECURSIVE MatchEnd(_, _, _)
MatchEnd(s, i, stack) ==
    IF i >= Len(s) THEN -1
    ELSE LET ch == At(s, i)
         IN  IF IsOpener(ch) THEN MatchEnd(s, i + 1, <<CloserOf(ch)>> \o stack)
             ELSE IF IsCloser(ch)
                  THEN IF stack = <<>> \/ Head(stack) # ch THEN -1
                       ELSE IF Len(stack) = 1 THEN i
                       ELSE MatchEnd(s, i + 1, Tail(stack))
             ELSE MatchEnd(s, i + 1, stack)

Count(s, ch) == Cardinality({i \in 1..Len(s) : s[i] = ch})
\* the two counters after the first k symbols of s
DepthCurly(s, k) == Count(SubSeq(s, 1, k), "{") - Count(SubSeq(s, 1, k), "}")
DepthSquare(s, k) == Count(SubSeq(s, 1, k), "[") - Count(SubSeq(s, 1, k), "]")

\* where the literal of the first marker begins: the first non-space index after it
LiteralStart(s, key) == SkipSpace(s, IndexOf(s, Marker(key)) + Len(Marker(key)))

\* the first occurrence of the marker is followed by a correctly nested literal
WellNestedAfterMarker(s, key) ==
    /\ IndexOf(s, Marker(key)) # -1
    /\ IsOpener(At(s, LiteralStart(s, key)))
    /\ MatchEnd(s, LiteralStart(s, key), <<>>) # -1

(***************************************************************************)
(* C8: when the first occurrence of the marker is followed, after optional *)
(* whitespace, by a correctly nested literal, extractDisconObject returns  *)
(* the substring from the opener to its matching closer: first and last    *)
(* symbols are a matching pair, both counters are zero after its last      *)
(* symbol and not both zero after any shorter non-empty prefix, and        *)
(* startIndex/endIndex delimit exactly that substring of the input.        *)
(***************************************************************************)
C8_BalancedExtract ==
    (scanRes # NoResult /\ WellNestedAfterMarker(html, "fact")) =>
        LET start == LiteralStart(html, "fact")
            stop == MatchEnd(html, start, <<>>)
            lit == scanRes.jsonLike
        IN  /\ scanRes.error = ""
            /\ scanRes.startIndex = start
            /\ scanRes.endIndex = stop + 1
            /\ lit = Slice(html, scanRes.startIndex, scanRes.endIndex)
            /\ IsOpener(lit[1]) /\ lit[Len(lit)] = CloserOf(lit[1])
            /\ DepthCurly(lit, Len(lit)) = 0 /\ DepthSquare(lit, Len(lit)) = 0
            /\ \A k \in 1..(Len(lit) - 1) :
                    ~(DepthCurly(lit, k) = 0 /\ DepthSquare(lit, k) = 0)

\* a literal that nests one kind of delimiter in the other has been extracted
C8_Witness ==
    /\ scanRes # NoResult /\ WellNestedAfterMarker(html, "fact")
    /\ scanRes.error = ""
    /\ Len(scanRes.jsonLike) = 4
    /\ Count(scanRes.jsonLike, "{") = 1 /\ Count(scanRes.jsonLike, "[") = 1

(***************************************************************************)
(* C10: tryParseObject decodes strictly first.  For a text JSON.parse      *)
(* accepts the result is the strictly decoded value tagged json and the    *)
(* permissive evaluation is not run; the eval tag is returned only when    *)
(* JSON.parse fails and the evaluation succeeds, with the evaluated value; *)
(* an error is returned exactly when both fail.                            *)
(***************************************************************************)
C10_StrictFirst ==
    pres # NotParsed =>
        /\ JSONparse(ptext).ok =>
                /\ pres.error = "" /\ pres.method = "json"
                /\ pres.value = JSONparse(ptext).value
                /\ pres.tried = <<"json">>
        /\ pres.method = "eval" =>
                /\ ~JSONparse(ptext).ok /\ FunctionEval(ptext).ok
                /\ pres.error = "" /\ pres.value = FunctionEval(ptext).value
        /\ pres.error # "" <=> (~JSONparse(ptext).ok /\ ~FunctionEval(ptext).ok)
        /\ pres.error = "" => pres.method \in {"json", "eval"}

\* a text both modes accept has been parsed, and it holds an object member
C10_Witness ==
    /\ pres # NotParsed
    /\ JSONparse(ptext).ok /\ FunctionEval(ptext).ok
    /\ Count(ptext, "K") = 1

\* a text only the permissive mode accepts has been parsed
C10_WitnessPermissive ==
    /\ pres # NotParsed
    /\ pres.method = "eval" /\ Count(ptext, "U") = 1

(***************************************************************************)
(* Reading a timestamp back                                                *)
(***************************************************************************)
OffsetMinutes(o) == o.sign * (o.hh * 60 + o.mm)
\* the absolute instant a timestamp denotes: its fields less its offset
InstantOf(t) == DateUTC(t.day, t.h, t.m) - OffsetMinutes(t.offset)
\* the wall clock of an instant at a given offset
WallClockAt(utcTs, off) ==
    LET wall == utcTs + off
    IN  [day |-> wall \div DayMinutes, h |-> (wall % DayMinutes) \div 60, m |-> wall % 60]
\* a local date and time on neither transition day
OffDstBoundary(in) == in.day \notin {SpringDay, AutumnDay}

(***************************************************************************)
(* C9: for a local date and time not on a DST boundary, the timestamp of   *)
(* toKyivIso, read as an absolute instant and shown again as a wall clock  *)
(* at the timestamp's own offset, is the original date and time.           *)
(***************************************************************************)
C9_RoundTrip ==
    (tout # NoTime /\ OffDstBoundary(tin)) =>
        WallClockAt(InstantOf(tout), OffsetMinutes(tout.offset))
            = [day |-> tin.day, h |-> tin.h, m |-> tin.m]

(***************************************************************************)
(* Reading the run specification                                           *)
(***************************************************************************)
\* the outcomes that take the error path of main
Failures == {"missing", "extract", "parse", "crash"}
\* a run has completed and the process has exited
RunDone == pc = "idle" /\ runs > 0
\* the record in a file that parses
RecordIn(file) == file.data[1]
\* the attempt counter a file holds, 0 for a file with no record
AttemptIn(file) == IF Parses(file) THEN RecordIn(file).lastUpdateStatus.attempt ELSE 0

(***************************************************************************)
(* C1: when a run fails (input missing, fact marker absent or malformed,   *)
(* fact literal unparseable, crash) and the output file held a record, the *)
(* record persisted by the run equals the earlier one in fact, preset,     *)
(* lastUpdated and meta.contentHash, and in every field other than         *)
(* lastUpdateStatus, which is the run's error status.                      *)
(***************************************************************************)
C1_FailureKeepsData ==
    (RunDone /\ last.outcome \in Failures /\ Parses(last.before)) =>
        /\ Parses(fs[OutPath])
        /\ LET old == RecordIn(last.before)
               new == RecordIn(fs[OutPath])
           IN  /\ new.fact = old.fact /\ new.preset = old.preset
               /\ new.lastUpdated = old.lastUpdated
               /\ new.meta.contentHash = old.meta.contentHash
               /\ [new EXCEPT !.lastUpdateStatus = old.lastUpdateStatus] = old
               /\ new.lastUpdateStatus.status = "error"
               /\ new.lastUpdateStatus # old.lastUpdateStatus

\* a fact literal failed to parse over a record that holds a fact and a preset
C1_Witness ==
    /\ RunDone /\ last.outcome = "parse" /\ Parses(last.before)
    /\ RecordIn(last.before).fact # <<>> /\ RecordIn(last.before).preset # <<>>
    /\ RecordIn(fs[OutPath]).fact = RecordIn(last.before).fact

C3_AtomicReplace ==
    seen # NotSeen => seen.file \in {seen.before, seen.new}

\* the reader read the earlier record while the new one was being written
C3_Witness ==
    /\ seen.writing /\ Parses(seen.before) /\ seen.before # seen.new
    /\ seen.file = seen.before
    /\ pc = "write" /\ fs["tmp"].written = 1

C7_EveryFailureIsError ==
    (RunDone /\ (last.outcome \in Failures \/ last.presetFailed)) =>
        /\ Parses(fs[OutPath])
        /\ RecordIn(fs[OutPath]).lastUpdateStatus.status = "error"

(***************************************************************************)
(* Reading the batch specification                                         *)
(***************************************************************************)
\* task() has been called for t
Started(t) == task[t] \notin {"new", "queued"}
\* t's promise p is settled: its run is over
Finished(t) == task[t] \in {"settled", "done", "rejected"}
\* the tasks that have started and not finished (each holds one browsing context)
InFlight == {t \in Tasks : Started(t) /\ ~Finished(t)}
\* runParallel has returned to main
Returned == mpc \in {"finally", "closing", "exited"}

C5_EachTaskOnce ==
    /\ \A t \in Tasks : counts.calls[t] = (IF Started(t) THEN 1 ELSE 0)
    /\ Returned => \A t \in Tasks : /\ counts.calls[t] = 1 /\ Finished(t)
                                    /\ result[t].outcome \in {"ok", "failed"}
    /\ mpc # "exited" => ENABLED NextBatch

\* the first task failed, and the last one, created after that, ran to a result
C5_Witness ==
    /\ mpc = "exited"
    /\ result[1].outcome = "failed" /\ result[NumTasks].outcome = "ok"
    /\ counts.calls[NumTasks] = 1

(***************************************************************************)
(* The three ways an extraction fails, read off the text alone             *)
(***************************************************************************)
\* the marker occurs somewhere in the text
MarkerOccurs(s, key) == \E i \in 1..Len(s) : <<s[i]>> = Marker(key)
\* the symbol after the first marker and the whitespace behind it ("" at the end)
AfterFirstMarker(s, key) == At(s, LiteralStart(s, key))
\* both counters are zero after some symbol of the text from index `start` on
BalancesFrom(s, start) ==
    \E stop \in (start + 1)..Len(s) :
        /\ DepthCurly(Slice(s, start, stop), stop - start) = 0
        /\ DepthSquare(Slice(s, start, stop), stop - start) = 0
\* a later occurrence of the marker that is followed by a balanced literal
LaterMarkerWithLiteral(s, key) ==
    \E i \in 1..Len(s) :
        /\ <<s[i]>> = Marker(key) /\ i - 1 > IndexOf(s, Marker(key))
        /\ IsOpener(At(s, SkipSpace(s, i))) /\ BalancesFrom(s, SkipSpace(s, i))

(***************************************************************************)
(* C11: extractDisconObject returns an error and no substring in exactly   *)
(* three cases: not found when the marker does not occur; syntax when the  *)
(* first non-whitespace symbol after the first occurrence of the marker is *)
(* neither { nor [ (the end of the input included, later occurrences not   *)
(* tried); unbalanced when the input ends before both counters are zero.   *)
(* In every other case it returns a non-empty substring of the input.      *)
(***************************************************************************)
C11_ThreeErrors ==
    scanRes # NoResult =>
        LET found == MarkerOccurs(html, "fact")
            opens == found /\ IsOpener(AfterFirstMarker(html, "fact"))
            balances == opens /\ BalancesFrom(html, LiteralStart(html, "fact"))
        IN  /\ scanRes.error = "notfound" <=> ~found
            /\ scanRes.error = "syntax" <=> (found /\ ~opens)
            /\ scanRes.error = "unbalanced" <=> (opens /\ ~balances)
            /\ scanRes.error = "" <=> balances
            /\ scanRes.error # "" =>
                  /\ scanRes.jsonLike = <<>>
                  /\ scanRes.startIndex = -1 /\ scanRes.endIndex = -1
            /\ scanRes.error = "" =>
                  /\ scanRes.jsonLike # <<>>
                  /\ scanRes.jsonLike = Slice(html, scanRes.startIndex, scanRes.endIndex)

\* a syntax error although a later occurrence of the marker has a literal
C11_Witness ==
    /\ scanRes # NoResult /\ scanRes.error = "syntax"
    /\ LaterMarkerWithLiteral(html, "fact")

\* the input ended inside the literal, with one counter below zero
C11_WitnessUnbalanced ==
    /\ scanRes # NoResult /\ scanRes.error = "unbalanced"
    /\ DepthSquare(html, Len(html)) < 0

(***************************************************************************)
(* C12: when the batch reports, ok + failed is the number of tasks, every  *)
(* task having been counted exactly once, as a success or as a failure;    *)
(* the exit status is 1 if and only if failed > 0, and 0 otherwise; and    *)
(* the report and the exit come only after every task has completed.       *)
(***************************************************************************)
C12_ReportAfterAll ==
    /\ counts.ok = Cardinality({t \in Tasks : result[t].outcome = "ok"})
    /\ counts.failed = Cardinality({t \in Tasks : result[t].outcome = "failed"})
    /\ (ENABLED Exit \/ mpc = "exited") =>
          /\ \A t \in Tasks : Finished(t) /\ result[t].outcome \in {"ok", "failed"}
          /\ counts.ok + counts.failed = NumTasks
    /\ mpc = "exited" =>
          /\ browser.exit \in {0, 1}
          /\ browser.exit = 1 <=> counts.failed > 0
    /\ mpc # "exited" => browser.exit = -1

\* the batch has exited with status 1: some tasks succeeded and some failed
C12_Witness ==
    /\ mpc = "exited" /\ browser.exit = 1
    /\ counts.ok > 0 /\ counts.failed > 1

\* the batch has exited with status 0: no task failed
C12_WitnessClean ==
    /\ mpc = "exited" /\ browser.exit = 0 /\ counts.ok = NumTasks

(***************************************************************************)
(* The render task (renderer.mjs 53-123, batch_render.mjs 301-385 and      *)
(* 399-407)                                                                *)
(*                                                                         *)
(* A render task is the wrapper of main around t.run(), which makes the    *)
(* output directory and calls renderPage.  Every await is a step, and the  *)
(* steps of the tasks in flight interleave.  What the browser, the page    *)
(* and the file system answer is chosen by the environment.  A task is     *)
(*   pc    the await it is at                                              *)
(*   dom   hasMatrix, hasToday, hasSummary (lines 90-92), as a set         *)
(*   got   the completion markers that came up in the page while a wait    *)
(*         for them was pending                                            *)
(*   winner  what Promise.race gave at line 103: the marker of the wait    *)
(*         that settled first, or null                                     *)
(*   ev    what went wrong first, as the environment had it                *)
(*   err   an error is being thrown                                        *)
(*   ctx, pg  the task's browsing context and page: none, open, closed     *)
(*   shot  the screenshot has been written                                 *)
(*   outcome  how the wrapper counted the task                             *)
(* dom, got and winner are not read after the waits: they are dropped at   *)
(* the measurement, and at page.close() when a wait has thrown.            *)
(***************************************************************************)
NumRenderTasks == 2
RenderTasks == 1..NumRenderTasks
Containers == {"matrix", "today", "summary"}
Markers == {"matrix", "today", "intervals", "badge"}

NewRenderTask ==
    [pc |-> "mkdir", dom |-> {}, got |-> {}, winner |-> "none",
     ev |-> "none", err |-> FALSE,
     ctx |-> "none", pg |-> "none", shot |-> FALSE, outcome |-> "none"]

\* an error thrown before the try block of renderPage: t.run() rejects at once
Reject(r, event) == [r EXCEPT !.err = TRUE, !.ev = event, !.pc = "settle"]

\* an error thrown inside the try block (lines 73-118): on to the finally block
Throw(r, event) == [r EXCEPT !.err = TRUE, !.ev = event, !.pc = "closePage"]

\* the template's markup is never looked at (mutant of NoneRendered)
NoneRenderedIgnored(dom) == FALSE

\* line 108: !hasMatrix && !hasToday && !hasSummary
NoneRendered(dom) == dom = {}

\* lines 94-107: the wait after the queries, after the matrix's, after the daily table's
AfterQuery(dom) ==
    IF "matrix" \in dom THEN "waitMatrix"
    ELSE IF "today" \in dom THEN "waitToday"
    ELSE IF "summary" \in dom THEN "waitSummary" ELSE "measure"
\* the daily table and the summary card are not waited for (mutant of AfterMatrix)
AfterMatrixOnly(dom) == "measure"
AfterMatrix(dom) ==
    IF "today" \in dom THEN "waitToday"
    ELSE IF "summary" \in dom THEN "waitSummary" ELSE "measure"
AfterToday(dom) == IF "summary" \in dom THEN "waitSummary" ELSE "measure"

\* lines 101-103: each wait settles with its element, or with null from its
\* catch; Promise.race gives what the wait that settles first settled with
SummaryWinner(intervals, badge, first) ==
    IF first = "intervals" THEN (IF intervals THEN "intervals" ELSE "null")
    ELSE IF badge THEN "badge" ELSE "null"

\* lines 108-110, after the waits: the locals of the try block are not read again
Checked(r) ==
    IF NoneRendered(r.dom) THEN Throw(r, "nodom")
    ELSE [r EXCEPT !.pc = "measure", !.ev = IF r.dom = {} THEN "nodom" ELSE @]

\* on to the next wait, or past the last one
Advance(r, next) == IF next = "measure" THEN Checked(r) ELSE [r EXCEPT !.pc = next]

InitRender ==
    /\ rp = [t \in RenderTasks |-> NewRenderTask]
    /\ rbrowser = [state |-> "open", created |-> 0, open |-> 0, ok |-> 0, failed |-> 0]
    /\ IdleCore /\ IdleServer /\ IdleExpand

\* batch_render.mjs 305: await mkdir(path.dirname(outPath), { recursive: true })
Mkdir(t, okay) ==
    /\ rp[t].pc = "mkdir"
    /\ rp' = [rp EXCEPT ![t] = IF okay THEN [@ EXCEPT !.pc = "newContext"] ELSE Reject(@, "mkdir")]
    /\ UNCHANGED <<rbrowser, coreVars, serverVars, expandVars>>

\* line 66: const context = await browser.newContext(...)
NewContext(t, okay) ==
    /\ rp[t].pc = "newContext"
    /\ IF okay
       THEN /\ rp' = [rp EXCEPT ![t] = [@ EXCEPT !.pc = "newPage", !.ctx = "open"]]
            /\ rbrowser' = [rbrowser EXCEPT !.created = @ + 1, !.open = @ + 1]
       ELSE /\ rp' = [rp EXCEPT ![t] = Reject(@, "context")]
            /\ UNCHANGED rbrowser
    /\ UNCHANGED <<coreVars, serverVars, expandVars>>

\* the page is navigated before the init script is installed (mutant of NewPage)
NewPageThenGoto(t, okay) ==
    /\ rp[t].pc = "newPage"
    /\ rp' = [rp EXCEPT ![t] = IF okay THEN [@ EXCEPT !.pc = "goto", !.pg = "open"]
                               ELSE Reject(@, "page")]
    /\ UNCHANGED <<rbrowser, coreVars, serverVars, expandVars>>

\* line 71: const page = await context.newPage(), before the try block
NewPage(t, okay) ==
    /\ rp[t].pc = "newPage"
    /\ rp' = [rp EXCEPT ![t] = IF okay THEN [@ EXCEPT !.pc = "data", !.pg = "open"]
                               ELSE Reject(@, "page")]
    /\ UNCHANGED <<rbrowser, coreVars, serverVars, expandVars>>

\* lines 74-83: readFile, JSON.parse, page.addInitScript
ReadData(t, okay) ==
    /\ rp[t].pc = "data"
    /\ rp' = [rp EXCEPT ![t] = IF okay THEN [@ EXCEPT !.pc = "goto"] ELSE Throw(@, "data")]
    /\ UNCHANGED <<rbrowser, coreVars, serverVars, expandVars>>

\* lines 88-92: page.goto, then the three queries
Navigate(t, okay, dom) ==
    /\ rp[t].pc = "goto"
    /\ rp' = [rp EXCEPT ![t] =
                IF ~okay THEN Throw(rp[t], "goto")
                ELSE Advance([rp[t] EXCEPT !.dom = dom], AfterQuery(dom))]
    /\ UNCHANGED <<rbrowser, coreVars, serverVars, expandVars>>

\* line 95: waitForSelector('#matrix tbody tr:last-child td:last-child')
WaitMatrix(t, appears) ==
    /\ rp[t].pc = "waitMatrix"
    /\ rp' = [rp EXCEPT ![t] =
                IF ~appears THEN Throw(rp[t], "timeout")
                ELSE Advance([rp[t] EXCEPT !.got = @ \cup {"matrix"}], AfterMatrix(rp[t].dom))]
    /\ UNCHANGED <<rbrowser, coreVars, serverVars, expandVars>>

\* line 98: waitForSelector('#today tbody tr td:last-child')
WaitToday(t, appears) ==
    /\ rp[t].pc = "waitToday"
    /\ rp' = [rp EXCEPT ![t] =
                IF ~appears THEN Throw(rp[t], "timeout")
                ELSE Advance([rp[t] EXCEPT !.got = @ \cup {"today"}], AfterToday(rp[t].dom))]
    /\ UNCHANGED <<rbrowser, coreVars, serverVars, expandVars>>

\* lines 101-106: the race of the two waits of the summary template.  Each
\* marker comes up within the window of its own wait or does not (intervals,
\* badge), and one of the two waits settles first.
WaitSummary(t, intervals, badge, first) ==
    /\ rp[t].pc = "waitSummary"
    /\ LET r == [rp[t] EXCEPT
                   !.got = @ \cup {m \in {"intervals", "badge"} :
                                     IF m = "intervals" THEN intervals ELSE badge},
                   !.winner = SummaryWinner(intervals, badge, first)]
       IN rp' = [rp EXCEPT ![t] =
                   IF r.winner = "null" THEN Throw(r, "timeout")
                   ELSE Advance(r, "measure")]
    /\ UNCHANGED <<rbrowser, coreVars, serverVars, expandVars>>

\* the page's markup is not looked at again
Forget(r) == [r EXCEPT !.dom = {}, !.got = {}, !.winner = "none"]

\* lines 112-114: container.boundingBox() gives a box, gives null, or throws
Measure(t, bbox) ==
    /\ rp[t].pc = "measure"
    /\ rp' = [rp EXCEPT ![t] = IF bbox = "box" THEN Forget([@ EXCEPT !.pc = "shot"])
                               ELSE Forget(Throw(@, "nobox"))]
    /\ UNCHANGED <<rbrowser, coreVars, serverVars, expandVars>>

\* line 116: container.screenshot({ path: outPath, type: 'png' })
Screenshot(t, okay) ==
    /\ rp[t].pc = "shot"
    /\ rp' = [rp EXCEPT ![t] = IF okay THEN [@ EXCEPT !.pc = "closePage", !.shot = TRUE]
                               ELSE Throw(@, "shot")]
    /\ UNCHANGED <<rbrowser, coreVars, serverVars, expandVars>>

\* line 120: await page.close(); when it throws, line 121 is not reached
ClosePage(t, okay) ==
    /\ rp[t].pc = "closePage"
    /\ rp' = [rp EXCEPT ![t] =
                IF okay THEN Forget([@ EXCEPT !.pc = "closeContext", !.pg = "closed"])
                ELSE Forget([@ EXCEPT !.pc = "settle", !.err = TRUE,
                                      !.ev = IF @ = "none" THEN "closePage" ELSE @])]
    /\ UNCHANGED <<rbrowser, coreVars, serverVars, expandVars>>

\* line 121: await context.close()
CloseContext(t, okay) ==
    /\ rp[t].pc = "closeContext"
    /\ IF okay
       THEN /\ rp' = [rp EXCEPT ![t] = [@ EXCEPT !.pc = "settle", !.ctx = "closed"]]
            /\ rbrowser' = [rbrowser EXCEPT !.open = @ - 1]
       ELSE /\ rp' = [rp EXCEPT ![t] = [@ EXCEPT !.pc = "settle", !.err = TRUE,
                                           !.ev = IF @ = "none" THEN "closeContext" ELSE @]]
            /\ UNCHANGED rbrowser
    /\ UNCHANGED <<coreVars, serverVars, expandVars>>

\* batch_render.mjs 399-407: the wrapper counts the task
Settle(t) ==
    /\ rp[t].pc = "settle"
    /\ rp' = [rp EXCEPT ![t] = [@ EXCEPT !.pc = "done",
                                   !.outcome = IF rp[t].err THEN "failed" ELSE "ok"]]
    /\ rbrowser' = IF rp[t].err THEN [rbrowser EXCEPT !.failed = @ + 1]
                   ELSE [rbrowser EXCEPT !.ok = @ + 1]
    /\ UNCHANGED <<coreVars, serverVars, expandVars>>

NextRender ==
    \E t \in RenderTasks :
        \/ \E okay \in BOOLEAN :
              \/ Mkdir(t, okay) \/ NewContext(t, okay) \/ NewPage(t, okay) \/ ReadData(t, okay)
              \/ WaitMatrix(t, okay) \/ WaitToday(t, okay) \/ Screenshot(t, okay)
              \/ ClosePage(t, okay) \/ CloseContext(t, okay)
        \/ \E okay \in BOOLEAN, dom \in SUBSET Containers : Navigate(t, okay, dom)
        \/ \E intervals \in BOOLEAN, badge \in BOOLEAN, first \in {"intervals", "badge"} :
              WaitSummary(t, intervals, badge, first)
        \/ \E bbox \in {"box", "null", "throws"} : Measure(t, bbox)
        \/ Settle(t)

SpecRender == InitRender /\ [][NextRender]_vars

(***************************************************************************)
(* Reading the render specification                                        *)
(***************************************************************************)
\* renderPage is over for t: its promise has settled
RenderOver(t) == rp[t].pc \in {"settle", "done"}
\* what the environment can withhold from a page that was navigated to
ReadinessFailures == {"nodom", "timeout", "nobox"}

(***************************************************************************)
(* C13: a render task fails without taking a screenshot when none of       *)
(* #matrix, #today, .summary-card exists after navigation, when a wait for *)
(* a completion marker (for the summary template: the race of its two      *)
(* waits) ends without the marker, or when the bounding box of .container  *)
(* is not measured; the scheduler counts such a task as failed.            *)
(***************************************************************************)
C13_NoReadinessNoShot ==
    /\ \A t \in RenderTasks :
          rp[t].ev \in ReadinessFailures =>
              /\ rp[t].err /\ ~rp[t].shot
              /\ rp[t].pc \in {"closePage", "closeContext", "settle", "done"}
              /\ rp[t].pc = "done" => rp[t].outcome = "failed"
    /\ rbrowser.failed = Cardinality({t \in RenderTasks : rp[t].outcome = "failed"})
    /\ rbrowser.ok = Cardinality({t \in RenderTasks : rp[t].outcome = "ok"})

\* one task timed out and was counted as failed, another was rendered
C13_Witness ==
    /\ \E t \in RenderTasks :
          /\ rp[t].pc = "done" /\ rp[t].ev = "timeout"
          /\ rp[t].outcome = "failed" /\ ~rp[t].shot
    /\ \E t \in RenderTasks : rp[t].outcome = "ok" /\ rp[t].shot
    /\ rbrowser.failed = 1

\* a page with none of the containers: counted as failed, no screenshot
C13_WitnessNoContainer ==
    \E t \in RenderTasks : rp[t].pc = "done" /\ rp[t].ev = "nodom" /\ rp[t].outcome = "failed"

(***************************************************************************)
(* C14: every render task opens a browsing context of its own, and a       *)
(* context that was opened is closed by the time the task finishes, on     *)
(* success and on failure at any later step (page creation, data read,     *)
(* navigation, readiness wait, measurement, screenshot); no task closes    *)
(* the shared browser.                                                     *)
(***************************************************************************)
C14_ContextClosed ==
    /\ \A t \in RenderTasks :
          (RenderOver(t) /\ rp[t].ctx # "none" /\ rp[t].ev \notin {"closePage", "closeContext"})
              => rp[t].ctx = "closed"
    /\ rbrowser.created = Cardinality({t \in RenderTasks : rp[t].ctx # "none"})
    /\ rbrowser.state = "open"

(***************************************************************************)
(* The task expansion (batch_render.mjs 188-200, 272-390)                  *)
(*                                                                         *)
(* A key of preset.data is a sequence of symbols: "G" for the letters GPV, *)
(* "g" for the same letters in lower case, the digits "1" and "2", "." and *)
(* "x" for anything else.  A data file is                                  *)
(*   kind      json, or bad (it cannot be read, or JSON.parse throws)      *)
(*   fact      json.fact is truthy                                         *)
(*   preset    null (falsy), nodata (truthy, with no data), data           *)
(*   regionId  json.regionId when it is a string, <<>> when it is not      *)
(*   keys      Object.keys(json.preset.data), in their order               *)
(*   stem      the file's name without .json                               *)
(*   only      the --region argument, <<>> for none                        *)
(***************************************************************************)
MaxKeys == 3
KeySamples ==
    { <<"G", "1", ".", "1">>, <<"G", "1", ".", "2">>, <<"g", "1", ".", "1">>,
      <<"G", "2", "1", ".", "1">>, <<"G", "1">>, <<"x", "1", ".", "1">> }
RegionIds == {<<>>, <<" ">>, <<"r">>, <<" ", "r">>}
FileStem == <<"s">>
RegionArgs == {<<>>, <<"r">>, <<"s">>, <<"z">>}

IsDigit(ch) == ch \in {"1", "2"}

\* the digits of s from 1-based position i on
RECURSIVE DigitsFrom(_, _)
DigitsFrom(s, i) ==
    IF i <= Len(s) /\ IsDigit(s[i]) THEN <<s[i]>> \o DigitsFrom(s, i + 1) ELSE <<>>

\* k.match(/^GPV(\d+)\.(\d+)$/i): the two groups, or <<>> for no match
GpvMatch(k) ==
    LET major == DigitsFrom(k, 2)
        dot == 2 + Len(major)
        minor == DigitsFrom(k, dot + 1)
    IN  IF /\ Len(k) >= 1 /\ k[1] \in {"G", "g"}
           /\ major # <<>> /\ dot <= Len(k) /\ k[dot] = "."
           /\ minor # <<>> /\ dot + Len(minor) = Len(k)
        THEN <<major, minor>> ELSE <<>>

\* the number a sequence of digits writes
RECURSIVE NumberOf(_)
NumberOf(ds) ==
    IF ds = <<>> THEN 0 ELSE 10 * NumberOf(SubSeq(ds, 1, Len(ds) - 1)) + (IF ds[Len(ds)] = "1" THEN 1 ELSE 2)

\* lines 291-295: the comparator of the sort on keys that match, by their
\* digits and dots under localeCompare(..., { numeric: true })
KeyBefore(a, b) ==
    LET ma == GpvMatch(a)
        mb == GpvMatch(b)
    IN  \/ NumberOf(ma[1]) < NumberOf(mb[1])
        \/ NumberOf(ma[1]) = NumberOf(mb[1]) /\ NumberOf(ma[2]) < NumberOf(mb[2])

\* Array.prototype.sort is stable: key k goes in after the keys not after it
RECURSIVE InsertKey(_, _)
InsertKey(sorted, k) ==
    IF sorted = <<>> THEN <<k>>
    ELSE IF KeyBefore(k, Head(sorted)) THEN <<k>> \o sorted
    ELSE <<Head(sorted)>> \o InsertKey(Tail(sorted), k)
RECURSIVE SortKeys(_)
SortKeys(ks) == IF ks = <<>> THEN <<>> ELSE InsertKey(SortKeys(SubSeq(ks, 1, Len(ks) - 1)), ks[Len(ks)])

\* String.prototype.trim
RECURSIVE Trim(_)
Trim(s) ==
    IF s = <<>> THEN s
    ELSE IF IsSpace(Head(s)) THEN Trim(Tail(s))
    ELSE IF IsSpace(s[Len(s)]) THEN Trim(SubSeq(s, 1, Len(s) - 1))
    ELSE s

\* lines 188-190
normalizeRegionId(json, fileStem) ==
    IF Trim(json.regionId) # <<>> THEN Trim(json.regionId) ELSE fileStem

\* lines 192-200: gpv-<major>-<minor>.png, as the two numbers' digits
gpvToFileName(gpvKey) ==
    LET m == GpvMatch(gpvKey)
    IN  IF m = <<>> THEN <<"gpv", "-">> \o gpvKey ELSE <<"gpv", "-">> \o m[1] \o <<"-">> \o m[2]

\* the per-group templates without the summary (mutant of GroupTemplates)
GroupTemplatesNoSummary == <<"full", "emergency", "week">>

\* lines 300-354: the templates rendered for every group, in the order of the pushes
GroupTemplates == <<"full", "emergency", "week", "summary">>

\* lines 269-271: toEmergencyName, toWeekName, toSummaryName
OutName(template, base) ==
    IF template = "full" THEN base ELSE base \o <<"-", template>>

\* the task's name and what its run() hands to renderPage: jsonPath is the
\* data file jf, here by its stem
RenderTask(template, regionId, gpv, day, out, jf) ==
    [template |-> template, region |-> regionId, gpv |-> gpv, day |-> day,
     out |-> [dir |-> regionId, file |-> out], json |-> jf]

\* lines 297-354: the tasks of one group
GroupTasks(regionId, gpv, jf) ==
    [i \in 1..Len(GroupTemplates) |->
        RenderTask(GroupTemplates[i], regionId, gpv, "",
                   OutName(GroupTemplates[i], gpvToFileName(gpv)), jf)]

RECURSIVE AllGroupTasks(_, _, _)
AllGroupTasks(regionId, gpvKeys, jf) ==
    IF gpvKeys = <<>> THEN <<>>
    ELSE GroupTasks(regionId, Head(gpvKeys), jf) \o AllGroupTasks(regionId, Tail(gpvKeys), jf)

\* lines 357-384: the two views of all groups
AllGroupsViews(regionId, jf) ==
    << RenderTask("groups", regionId, <<>>, "", <<"gpv-all-today">>, jf),
       RenderTask("groups", regionId, <<>>, "tomorrow", <<"gpv-all-tomorrow">>, jf) >>

\* the two views of all groups pushed for every file that is read, whatever
\* stands in it (mutant of ExpandFile)
ExpandFileViewsAlways(f) ==
    LET regionId == normalizeRegionId(f, f.stem)
        presetData == IF f.preset = "data" THEN f.keys ELSE <<>>
        gpvKeys == SortKeys(SelectSeq(presetData, LAMBDA k : GpvMatch(k) # <<>>))
    IN  IF f.kind = "bad" THEN <<>>
        ELSE IF ~f.fact \/ f.preset = "null" THEN AllGroupsViews(regionId, f.stem)
        ELSE IF f.only # <<>> /\ f.only # regionId /\ f.only # f.stem
             THEN AllGroupsViews(regionId, f.stem)
        ELSE AllGroupTasks(regionId, gpvKeys, f.stem) \o AllGroupsViews(regionId, f.stem)

\* lines 272-390: the body of the loop for one data file
ExpandFile(f) ==
    LET regionId == normalizeRegionId(f, f.stem)
        presetData == IF f.preset = "data" THEN f.keys ELSE <<>>
        gpvKeys == SortKeys(SelectSeq(presetData, LAMBDA k : GpvMatch(k) # <<>>))
    IN  IF f.kind = "bad" THEN <<>>
        ELSE IF ~f.fact \/ f.preset = "null" THEN <<>>
        ELSE IF f.only # <<>> /\ f.only # regionId /\ f.only # f.stem THEN <<>>
        ELSE IF gpvKeys = <<>> THEN <<>>
        ELSE AllGroupTasks(regionId, gpvKeys, f.stem) \o AllGroupsViews(regionId, f.stem)

\* sequences of distinct keys
KeyLists == {ks \in SeqsUpTo(KeySamples, MaxKeys) : \A i, j \in 1..Len(ks) : i # j => ks[i] # ks[j]}

DataFiles ==
    [kind : {"json"}, fact : BOOLEAN, preset : {"null", "nodata", "data"},
     regionId : RegionIds, keys : KeyLists, stem : {FileStem}, only : RegionArgs]
        \cup [kind : {"bad"}, fact : {FALSE}, preset : {"null"},
              regionId : {<<>>}, keys : {<<>>}, stem : {FileStem}, only : {<<>>}]

InitExpand ==
    /\ dfile \in DataFiles
    /\ made = NoTasks
    /\ IdleCore /\ IdleRender /\ IdleServer

Expand ==
    /\ ~made.done
    /\ made' = [done |-> TRUE, tasks |-> ExpandFile(dfile)]
    /\ UNCHANGED <<dfile, coreVars, renderVars, serverVars>>

NextExpand == Expand

SpecExpand == InitExpand /\ [][NextExpand]_vars

(***************************************************************************)
(* Reading the expansion                                                   *)
(***************************************************************************)
\* the keys under preset.data that have the form GPV<major>.<minor>
GroupKeys(f) == IF f.preset = "data" THEN {k \in Range(f.keys) : GpvMatch(k) # <<>>} ELSE {}
\* the record of the file has fact and preset and passes the --region filter
Eligible(f) ==
    /\ f.kind = "json" /\ f.fact /\ f.preset # "null"
    /\ f.only = <<>> \/ f.only = normalizeRegionId(f, f.stem) \/ f.only = f.stem
TasksWith(template, gpv, day) ==
    {i \in 1..Len(made.tasks) :
        /\ made.tasks[i].template = template
        /\ made.tasks[i].gpv = gpv /\ made.tasks[i].day = day}

(***************************************************************************)
(* C15: for a data record that has fact and preset, passes the region      *)
(* filter and has g >= 1 keys of the form GPV<major>.<minor> under         *)
(* preset.data, exactly 4*g + 2 tasks are created: one per group for each  *)
(* of the full, emergency, week and summary templates, and the two views   *)
(* of all groups, today and tomorrow.                                      *)
(***************************************************************************)
C15_FanOut ==
    (made.done /\ Eligible(dfile) /\ Cardinality(GroupKeys(dfile)) >= 1) =>
        /\ Len(made.tasks) = 4 * Cardinality(GroupKeys(dfile)) + 2
        /\ \A k \in GroupKeys(dfile) :
              \A template \in {"full", "emergency", "week", "summary"} :
                  Cardinality(TasksWith(template, k, "")) = 1
        /\ Cardinality(TasksWith("groups", <<>>, "")) = 1
        /\ Cardinality(TasksWith("groups", <<>>, "tomorrow")) = 1

\* two groups among three keys, requested by the file's stem: ten tasks
C15_Witness ==
    /\ made.done /\ Eligible(dfile) /\ Cardinality(GroupKeys(dfile)) = 2
    /\ Len(dfile.keys) = 3 /\ dfile.only = FileStem /\ dfile.regionId = <<"r">>
    /\ Len(made.tasks) = 10

(***************************************************************************)
(* Reading a run's input                                                   *)
(***************************************************************************)
\* the text extracted for a key, <<>> when nothing is extracted
ExtractedText(h, key) ==
    IF extractDisconObject(h, key).error = "" THEN extractDisconObject(h, key).jsonLike ELSE <<>>
\* the last run that persisted a record was a success
Succeeded == RunDone /\ last.outcome = "success"

(***************************************************************************)
(* C16 (as amended): on a successful run meta.contentHash is the SHA-256   *)
(* digest of the extracted fact text, the separator | and the extracted    *)
(* preset text (the empty string when no preset text is extracted), so it  *)
(* depends on the extracted texts alone: not on the time, the attempt or   *)
(* the record found.                                                       *)
(***************************************************************************)
C16_HashOfTexts ==
    Succeeded =>
        RecordIn(fs[OutPath]).meta.contentHash =
            sha256(ExtractedText(last.html, "fact") \o <<"|">> \o ExtractedText(last.html, "preset"))

\* a second run, over a record with another hash, stored the hash of both texts
C16_Witness ==
    /\ Succeeded /\ runs = 2
    /\ ExtractedText(last.html, "fact") # <<>> /\ ExtractedText(last.html, "preset") # <<>>
    /\ Parses(last.before)
    /\ RecordIn(last.before).meta.contentHash # RecordIn(fs[OutPath]).meta.contentHash
    /\ RecordIn(fs[OutPath]).meta.contentHash # <<>>

\* C16 as stated: the digest of the fact text followed at once by the preset text
C16_PlainConcatenation ==
    Succeeded =>
        RecordIn(fs[OutPath]).meta.contentHash =
            sha256(ExtractedText(last.html, "fact") \o ExtractedText(last.html, "preset"))

(***************************************************************************)
(* C17: with the required arguments given parse_fact exits with status 0   *)
(* whatever the outcome (success, input missing, extraction or parse       *)
(* failure, crash); the only nonzero exit status is 2, for a missing       *)
(* required argument.                                                      *)
(***************************************************************************)
C17_ExitStatus ==
    /\ last.exit \in {-1, 0, 2}
    /\ last.exit = 2 <=> last.args = "missing"
    /\ (last.args = "given" /\ pc = "idle") => last.exit = 0

(***************************************************************************)
(* Values JSON can write                                                   *)
(***************************************************************************)
\* the html has the fact marker followed by a literal tryParseObject decodes
FactParses(h) ==
    /\ extractDisconObject(h, "fact").error = ""
    /\ tryParseObject(ExtractedText(h, "fact")).error = ""
FactValue(h) == tryParseObject(ExtractedText(h, "fact")).value
\* a decoded value with no BigInt and no array hole in it
JsonValue(v) == \A i \in 1..Len(v) : v[i] \notin {"n", "h"}
\* the last process to run was an extraction run that ran to its end
RanToEnd == RunDone /\ last.exit = 0

(***************************************************************************)
(* A fact literal alone whose value JSON can write (no BigInt, no array    *)
(* hole): the run succeeds, the persisted record has fact equal to the     *)
(* parsed literal, preset = null and status parsed, whatever preset the    *)
(* record found had.                                                       *)
(***************************************************************************)
FactAloneWritable ==
    (RanToEnd /\ FactParses(last.html) /\ JsonValue(FactValue(last.html))
        /\ ~MarkerOccurs(last.html, "preset")) =>
        /\ last.outcome = "success"
        /\ RecordIn(fs[OutPath]).fact = FactValue(last.html)
        /\ RecordIn(fs[OutPath]).preset = <<>>
        /\ RecordIn(fs[OutPath]).lastUpdateStatus.status = "parsed"

\* a permissive fact literal alone replaced a record that held a preset
FactAloneReplacedPreset ==
    /\ RanToEnd /\ FactParses(last.html) /\ JsonValue(FactValue(last.html))
    /\ ~MarkerOccurs(last.html, "preset")
    /\ tryParseObject(ExtractedText(last.html, "fact")).method = "eval"
    /\ Parses(last.before) /\ RecordIn(last.before).preset # <<>>
    /\ RecordIn(fs[OutPath]).preset = <<>>

(***************************************************************************)
(* C18: when the input has the fact marker followed by a parseable literal *)
(* and no preset marker, the run succeeds: the persisted record has fact   *)
(* equal to the parsed literal, preset = null and lastUpdateStatus.status  *)
(* = parsed, whatever preset the record found had.                         *)
(***************************************************************************)
C18_AnyParseableFact ==
    (RanToEnd /\ FactParses(last.html) /\ ~MarkerOccurs(last.html, "preset")) =>
        /\ last.outcome = "success"
        /\ RecordIn(fs[OutPath]).fact = FactValue(last.html)
        /\ RecordIn(fs[OutPath]).preset = <<>>
        /\ RecordIn(fs[OutPath]).lastUpdateStatus.status = "parsed"

(***************************************************************************)
(* C19: over any sequence of runs with the same region argument, successes *)
(* and failures in any order, the regionId of the persisted record is the  *)
(* same after every run.                                                   *)
(***************************************************************************)
C19_RegionIdStable ==
    RunDone =>
        /\ RecordIn(fs[OutPath]).regionId = Region
        /\ Parses(last.before) => RecordIn(fs[OutPath]).regionId = RecordIn(last.before).regionId

\* a failure on an empty store, then a success, then a failure
C19_Witness ==
    /\ RunDone /\ runs = 3 /\ last.outcome \in Failures
    /\ Parses(last.before) /\ RecordIn(last.before).lastUpdateStatus.status = "parsed"
    /\ RecordIn(last.before).lastUpdated = 2
    /\ RecordIn(fs[OutPath]).regionId = RecordIn(last.before).regionId

(***************************************************************************)
(* The static server (renderer.mjs 11-46)                                  *)
(*                                                                         *)
(* A request's URL is a sequence of symbols: "/", "n" for a name, "." and  *)
(* the extensions "html", "HTML", "js", "mjs", "json", "css", "png",       *)
(* "svg", "txt"; "?" starts the query, "%2E" is an encoded dot, "%2F" an   *)
(* encoded slash and "%" an escape that cannot be decoded.  Two dots in a  *)
(* row between slashes are the segment `..`.  The served root is the       *)
(* directory "r" inside the directory "p".  What is at the mapped path is  *)
(* a file with some content, a directory, or nothing.                      *)
(***************************************************************************)
Extensions == {"html", "HTML", "js", "mjs", "json", "css", "png", "svg", "txt"}

Urls ==
    {<<"/">>, <<"/", "n">>, <<"/", ".", "html">>, <<"/", "n", ".", "js", ".", "txt">>,
     <<"/", "n", "%2E", "json">>, <<"/", "n", "%", ".", "html">>,
     <<"/", "n", ".", "css", "?", ".", "png">>, <<"/", "n", "/", "n", ".", "svg">>,
     <<"/", "n", "/", ".", ".", "/", "n", ".", "txt">>,
     <<"/", ".", ".", "/", "n", ".", "txt">>,
     <<"/", "%2E", "%2E", "/", "n", ".", "txt">>,
     <<"/", "n", "%2F", ".", ".", "%2F", ".", ".", "%2F", "n", ".", "json">>,
     <<"/", ".", ".", "/", ".", ".", "/", ".", ".", "/", "n", ".", "html">>,
     <<"/", ".", ".", "/", "r", "/", "n", ".", "js">>}
        \cup {<<"/", "n", ".", e>> : e \in Extensions}

\* url.parse(req.url).pathname: the URL as far as its query
Pathname(u) ==
    LET q == {i \in 1..Len(u) : u[i] = "?"}
    IN  IF q = {} THEN u ELSE SubSeq(u, 1, (CHOOSE i \in q : \A j \in q : i <= j) - 1)

\* decodeURIComponent: throws on a malformed escape
DecodeThrows(p) == \E i \in 1..Len(p) : p[i] = "%"
decodeURIComponent(p) ==
    [i \in 1..Len(p) |-> IF p[i] = "%2E" THEN "." ELSE IF p[i] = "%2F" THEN "/" ELSE p[i]]

\* the directory startStaticServer is given: batch_render.mjs 262 passes the
\* absolute projectRoot
RootDir == <<"/", "p", "/", "r">>

\* the segments of a path: what stands between its slashes
RECURSIVE SegmentsFrom(_, _, _)
SegmentsFrom(p, i, cur) ==
    IF i > Len(p) THEN <<cur>>
    ELSE IF p[i] = "/" THEN <<cur>> \o SegmentsFrom(p, i + 1, <<>>)
    ELSE SegmentsFrom(p, i + 1, Append(cur, p[i]))

\* path.normalize on the segments of an absolute path: empty segments and
\* `.` are dropped, `..` drops the segment before it and is itself dropped
\* at the top
RECURSIVE Resolved(_, _, _)
Resolved(segs, i, kept) ==
    IF i > Len(segs) THEN kept
    ELSE IF segs[i] = <<>> \/ segs[i] = <<".">> THEN Resolved(segs, i + 1, kept)
    ELSE IF segs[i] = <<".", ".">>
         THEN Resolved(segs, i + 1, IF kept = <<>> THEN kept ELSE SubSeq(kept, 1, Len(kept) - 1))
    ELSE Resolved(segs, i + 1, Append(kept, segs[i]))

RECURSIVE Slashed(_, _)
Slashed(segs, i) == IF i > Len(segs) THEN <<>> ELSE <<"/">> \o segs[i] \o Slashed(segs, i + 1)

normalize(p) ==
    LET kept == Resolved(SegmentsFrom(p, 1, <<>>), 1, <<>>)
    IN  IF kept = <<>> THEN <<"/">> ELSE Slashed(kept, 1)

\* path.join: the parts joined with a slash, then normalized
join(rootDir, filePath) == normalize(rootDir \o <<"/">> \o filePath)

\* abs is a path inside rootDir
Under(rootDir, abs) ==
    /\ Len(abs) > Len(rootDir) + 1
    /\ SubSeq(abs, 1, Len(rootDir) + 1) = rootDir \o <<"/">>

\* the last element of a non-empty set of numbers, 0 for the empty set
LastOf(S) == IF S = {} THEN 0 ELSE CHOOSE i \in S : \A j \in S : i >= j

\* path.extname: from the last dot of the last segment, unless the segment
\* starts with that dot; "" for none
extname(p) ==
    LET slash == LastOf({i \in 1..Len(p) : p[i] = "/"})
        dot == LastOf({i \in (slash + 1)..Len(p) : p[i] = "."})
    IN  IF dot <= slash + 1 THEN <<>> ELSE SubSeq(p, dot, Len(p))

\* String.prototype.toLowerCase on an extension
toLowerCase(ext) == [i \in 1..Len(ext) |-> IF ext[i] = "HTML" THEN "html" ELSE ext[i]]

\* every file served as a web page (mutant of contentTypeFor)
contentTypeForHtmlOnly(filePath) == "text/html; charset=utf-8"

\* lines 11-23
contentTypeFor(filePath) ==
    LET ext == toLowerCase(extname(filePath))
    IN  IF ext = <<".", "html">> THEN "text/html; charset=utf-8"
        ELSE IF ext = <<".", "js">> THEN "text/javascript; charset=utf-8"
        ELSE IF ext = <<".", "mjs">> THEN "text/javascript; charset=utf-8"
        ELSE IF ext = <<".", "json">> THEN "application/json; charset=utf-8"
        ELSE IF ext = <<".", "css">> THEN "text/css; charset=utf-8"
        ELSE IF ext = <<".", "png">> THEN "image/png"
        ELSE IF ext = <<".", "svg">> THEN "image/svg+xml"
        ELSE "application/octet-stream"

\* lines 29-33: the path under rootDir, "/" standing for /README.md
FilePath(u) ==
    LET filePath == decodeURIComponent(Pathname(u))
    IN  IF filePath = <<"/">> THEN <<"/", "README", ".", "md">> ELSE filePath

Response(status, type, body) == [status |-> status, type |-> type, body |-> body]

\* lines 37-40
NotFound == Response(404, "text/plain; charset=utf-8", "Not found")

\* what readFile(abs) finds
Disk == [kind : {"file"}, data : {"d1", "d2"}] \cup [kind : {"dir", "missing"}, data : {""}]

InitServer ==
    /\ req \in [url : Urls, at : Disk, pc : {"received"}, abs : {<<>>}]
    /\ resp = <<>>
    /\ IdleCore /\ IdleRender /\ IdleExpand

\* lines 27-34: the path is parsed, decoded and joined to the root, and
\* readFile is called
Resolve ==
    /\ req.pc = "received"
    /\ IF DecodeThrows(Pathname(req.url))
       THEN /\ resp' = Append(resp, NotFound)
            /\ req' = [req EXCEPT !.pc = "answered"]
       ELSE /\ req' = [req EXCEPT !.pc = "reading", !.abs = join(RootDir, FilePath(req.url))]
            /\ UNCHANGED resp
    /\ UNCHANGED <<coreVars, renderVars, expandVars>>

\* lines 34-40: readFile settles; the file is sent, or the catch block answers
Answer ==
    /\ req.pc = "reading"
    /\ resp' = Append(resp, IF req.at.kind = "file"
                            THEN Response(200, contentTypeFor(req.abs), req.at.data)
                            ELSE NotFound)
    /\ req' = [req EXCEPT !.pc = "answered"]
    /\ UNCHANGED <<coreVars, renderVars, expandVars>>

NextServer == Resolve \/ Answer

SpecServer == InitServer /\ [][NextServer]_vars

(***************************************************************************)
(* The extension table, read off the request                               *)
(***************************************************************************)
\* the request's path ends in a name, a dot and the extension e
EndsIn(u, e) ==
    LET p == FilePath(u)
    IN  /\ Len(p) >= 3 /\ p[Len(p)] = e /\ p[Len(p) - 1] = "." /\ p[Len(p) - 2] \notin {"/", "."}
TypeOf(u) ==
    IF EndsIn(u, "html") \/ EndsIn(u, "HTML") THEN "text/html; charset=utf-8"
    ELSE IF EndsIn(u, "js") \/ EndsIn(u, "mjs") THEN "text/javascript; charset=utf-8"
    ELSE IF EndsIn(u, "json") THEN "application/json; charset=utf-8"
    ELSE IF EndsIn(u, "css") THEN "text/css; charset=utf-8"
    ELSE IF EndsIn(u, "png") THEN "image/png"
    ELSE IF EndsIn(u, "svg") THEN "image/svg+xml"
    ELSE "application/octet-stream"

(***************************************************************************)
(* C20: the static server answers every request exactly once: 200 with the *)
(* file's content and the content type of the extension table (.html,      *)
(* .js/.mjs, .json, .css, .png, .svg, otherwise application/octet-stream)  *)
(* when the mapped file can be read, and 404 for every read failure        *)
(* (missing file, directory, undecodable path).                            *)
(***************************************************************************)
C20_OneAnswer ==
    /\ Len(resp) <= 1
    /\ req.pc = "answered" <=> Len(resp) = 1
    /\ req.pc = "answered" =>
          IF req.at.kind = "file" /\ ~DecodeThrows(Pathname(req.url))
          THEN resp[1] = Response(200, TypeOf(req.url), req.at.data)
          ELSE resp[1].status = 404
    /\ ENABLED NextServer <=> (req.pc \in {"received", "reading"})

\* a stylesheet was served: the query of the URL played no part
C20_Witness ==
    /\ req.pc = "answered" /\ req.url = <<"/", "n", ".", "css", "?", ".", "png">>
    /\ resp = <<Response(200, "text/css; charset=utf-8", "d2")>>

\* a path that cannot be decoded was answered 404 although a file is there
C20_WitnessUndecodable ==
    /\ req.pc = "answered" /\ DecodeThrows(Pathname(req.url)) /\ req.at.kind = "file"
    /\ resp[1].status = 404

(***************************************************************************)
(* Reading the readiness wait (renderer.mjs 90-110)                        *)
(***************************************************************************)
\* the marker awaited for a container came up; for the summary card, the
\* race of line 103 was won by a marker
MarkerCame(r, c) ==
    IF c = "summary" THEN r.winner \in {"intervals", "badge"} /\ r.winner \in r.got
    ELSE c \in r.got
\* the page has a container and the marker of every container it has came up
Ready(r) == r.dom # {} /\ \A c \in r.dom : MarkerCame(r, c)
\* the waits of t are over and renderPage goes on to measure and capture
PastWaits(t) == rp[t].pc = "measure"
\* a wait of t has thrown and the finally block is about to close the page
WaitFailed(t) == rp[t].pc = "closePage" /\ rp[t].ev = "timeout"

(***************************************************************************)
(* C21 (as amended): the readiness wait of a render task succeeds exactly  *)
(* when the marker of every container found in the page after navigation   *)
(* comes up within its wait: the matrix's last cell for #matrix, the daily *)
(* table's last cell for #today, and for .summary-card the marker of       *)
(* whichever of its two waits settles first.  Such a task goes on to       *)
(* measure and capture; a task one of whose awaited markers stays out      *)
(* fails, also when the marker of another container has come up.           *)
(***************************************************************************)
C21_EveryContainerReady ==
    \A t \in RenderTasks :
        /\ PastWaits(t) => Ready(rp[t]) /\ ~rp[t].err /\ rp[t].ev = "none"
        /\ WaitFailed(t) => ~Ready(rp[t]) /\ rp[t].dom # {} /\ ~rp[t].shot

\* a page with the matrix and the daily table, both filled: on to the measurement
C21_Witness ==
    \E t \in RenderTasks :
        /\ PastWaits(t) /\ rp[t].dom = {"matrix", "today"}
        /\ rp[t].got = {"matrix", "today"}

\* a summary page on which the interval list came up first
C21_WitnessSummary ==
    \E t \in RenderTasks :
        /\ PastWaits(t) /\ rp[t].dom = {"summary"}
        /\ rp[t].winner = "intervals" /\ rp[t].got = {"intervals"}

\* C21 as stated: a task for which one of the markers came up within the
\* window proceeds to capture, that is, its waits do not fail
C21_OneMarkerSuffices ==
    \A t \in RenderTasks : WaitFailed(t) => rp[t].got = {}

(***************************************************************************)
(* Reading the order of the steps of renderPage                            *)
(***************************************************************************)
Waits == {"waitMatrix", "waitToday", "waitSummary"}
\* the steps of the try block up to the screenshot, in the order of the code
StepRank(step) ==
    CASE step = "newContext" -> 1 [] step = "newPage" -> 2 [] step = "data" -> 3
      [] step = "goto" -> 4 [] step = "waitMatrix" -> 5 [] step = "waitToday" -> 6
      [] step = "waitSummary" -> 7 [] step = "measure" -> 8 [] step = "shot" -> 9
      [] OTHER -> 0
\* the step a task can have come from when it arrives at step
ComesFrom(step) ==
    CASE step = "newPage" -> {"newContext"}
      [] step = "data" -> {"newPage"}
      [] step = "goto" -> {"data"}
      [] step = "waitMatrix" -> {"goto"}
      [] step = "waitToday" -> {"goto", "waitMatrix"}
      [] step = "waitSummary" -> {"goto", "waitMatrix", "waitToday"}
      [] step = "measure" -> Waits
      [] step = "shot" -> {"measure"}
      [] OTHER -> {}
\* t moves on to a step of renderPage, with nothing thrown
StepsTo(t, step) == rp[t].pc # step /\ rp'[t].pc = step

(***************************************************************************)
(* C22: within one render task the steps happen in the order: open a       *)
(* browsing context of its own, open the page and install the record and   *)
(* the group selector as init script, navigate, wait for the completion    *)
(* markers, measure the container, take the screenshot; a task arrives at  *)
(* a step only from the step before it and only when that step has not     *)
(* thrown.  The init script is installed before the navigation starts, and *)
(* the screenshot is written only by the step that follows a successful    *)
(* measurement, which follows the waits.                                   *)
(***************************************************************************)
C22_StepOrder ==
    [][\A t \in RenderTasks :
          /\ \A step \in {"newPage", "data", "goto", "measure", "shot"} \cup Waits :
                StepsTo(t, step) =>
                    /\ rp[t].pc \in ComesFrom(step)
                    /\ StepRank(rp[t].pc) < StepRank(step)
                    /\ ~rp'[t].err /\ rp'[t].ev = "none" /\ ~rp'[t].shot
                    /\ rp'[t].ctx = "open"
                    /\ step # "newPage" => rp'[t].pg = "open"
          /\ (rp'[t].shot /\ ~rp[t].shot) => rp[t].pc = "shot" /\ ~rp[t].err
          /\ rp[t].shot => rp'[t].shot
      ]_vars

\* a task went through every step and its screenshot is written
C22_Witness ==
    \E t \in RenderTasks :
        /\ rp[t].shot /\ rp[t].pc = "done" /\ rp[t].outcome = "ok"
        /\ rp[t].ctx = "closed" /\ rp[t].pg = "closed"

(***************************************************************************)
(* C23: for a summary template the two waits (interval list, ON badge) run *)
(* concurrently and the readiness wait succeeds if either marker comes up  *)
(* before its own wait times out; it fails only when neither marker comes  *)
(* up, in whichever order the two waits settle.                            *)
(***************************************************************************)
C23_EitherMarkerWins ==
    \A t \in RenderTasks :
        /\ rp[t].winner = "null" => rp[t].got \cap {"intervals", "badge"} = {}
        /\ rp[t].winner \in {"intervals", "badge"} => PastWaits(t) /\ ~rp[t].err

(***************************************************************************)
(* C24: the shared browser and the static server are up from before the    *)
(* first task is queued; browser.close() is called once and server.close() *)
(* after it, both only when every task has finished; while a task is       *)
(* queued or running the browser is open and the server listens, and once  *)
(* the browser is closed no task is running and none is left to start.     *)
(***************************************************************************)
C24_BrowserLifetime ==
    /\ browser.closes \in {0, 1}
    /\ browser.closes = 1 <=> browser.state = "closed"
    /\ browser.state \in {"open", "closed"} /\ browser.server \in {"listening", "closed"}
    /\ browser.state = "closed" =>
          /\ mpc \in {"closing", "exited"} /\ nextTask > NumTasks
          /\ \A t \in Tasks : task[t] \in {"settled", "done"} /\ counts.calls[t] = 1
    /\ browser.server = "closed" <=> mpc = "exited"
    /\ mpc = "exited" => browser.state = "closed"
    /\ \A t \in Tasks :
          task[t] \in {"queued", "running"} =>
              browser.state = "open" /\ browser.server = "listening"

\* the batch is over: browser and server are closed, after tasks that
\* succeeded and tasks that failed
C24_Witness ==
    /\ mpc = "exited" /\ browser.state = "closed" /\ browser.server = "closed"
    /\ browser.closes = 1
    /\ counts.ok > 0 /\ counts.failed > 0
    /\ \A t \in Tasks : task[t] = "done"

(***************************************************************************)
(* The scheduler under fair scheduling                                     *)
(*                                                                         *)
(* Node runs a job that is ready, main goes on when the promise it awaits  *)
(* has settled, and a render task that was started ends, well or badly     *)
(* (the hypothesis of C25): as long as a step of the scheduler is          *)
(* possible, one is taken.                                                 *)
(***************************************************************************)
FairBatch == WF_vars(NextBatch)

SpecBatchFair == InitBatch /\ [][NextBatch]_vars /\ FairBatch

(***************************************************************************)
(* C25: if every render task that was started ends (with a result, a       *)
(* failure or a timeout), then every task is eventually started, the       *)
(* scheduler resolves, and the batch closes the browser and exits; a task  *)
(* that failed does not keep the tasks behind it from being started.       *)
(***************************************************************************)
C25_Terminates ==
    <>(/\ mpc = "exited" /\ browser.state = "closed"
       /\ \A t \in Tasks : counts.calls[t] = 1 /\ Finished(t))

\* the batch has exited although the first Concurrency tasks all failed
C25_Witness ==
    /\ mpc = "exited"
    /\ \A t \in 1..Concurrency : result[t].outcome = "failed"
    /\ \A t \in Tasks : counts.calls[t] = 1 /\ task[t] = "done"

(***************************************************************************)
(* Nesting as JavaScript reads it: delimiters inside a quoted string do    *)
(* not count                                                               *)
(***************************************************************************)
\* the text with the contents of its strings blanked
Unstringed(s) == [k \in 1..Len(s) |-> IF InString(s, k - 1) THEN "x" ELSE s[k]]

\* the 0-based index of the closer that ends the literal after the marker
TrueEnd(s) == MatchEnd(Unstringed(s), LiteralStart(s, "fact"), <<>>)

\* the delimiters that stand inside strings of the literal
StringDelimiters(s) ==
    {i \in LiteralStart(s, "fact")..TrueEnd(s) : InString(s, i) /\ At(s, i) \in Delimiters}

\* the literal is well formed and has a delimiter in a string
Stringed(s) ==
    /\ IndexOf(s, Marker("fact")) # -1 /\ IsOpener(At(s, LiteralStart(s, "fact")))
    /\ TrueEnd(s) # -1 /\ StringDelimiters(s) # {}

\* the scan gave a proper prefix of the literal, and no error
EndedEarly(s, res) ==
    /\ res.error = "" /\ res.startIndex = LiteralStart(s, "fact")
    /\ res.endIndex <= TrueEnd(s)
    /\ res.jsonLike = Slice(s, res.startIndex, res.endIndex)

\* the scan went past the literal's last symbol: it found its end further
\* on in the page, or the page ended first
RanPast(s, res) ==
    \/ res.error = "unbalanced"
    \/ /\ res.error = "" /\ res.startIndex = LiteralStart(s, "fact")
       /\ res.endIndex > TrueEnd(s) + 1

\* the delimiter in the string is a closer of the kind of the outermost opener
ClosesOutermost(s) ==
    \E i \in StringDelimiters(s) : At(s, i) = CloserOf(At(s, LiteralStart(s, "fact")))

(***************************************************************************)
(* C26 (as amended): the extractor counts every {, }, [ and ], also inside *)
(* quoted strings, so a well-formed literal with an unmatched delimiter in *)
(* a string is never returned as it is.  An unmatched closer of the kind   *)
(* of the literal's outermost opener ends the scan early: a proper prefix  *)
(* of the literal is returned and no error is reported.  An unmatched      *)
(* closer of the other kind, and an unmatched opener of either kind, make  *)
(* the scan run past the literal's true end: it reports unbalanced braces  *)
(* or returns a text longer than the literal.                              *)
(***************************************************************************)
C26_StringsDesynchronize ==
    (scanRes # NoResult /\ Stringed(html)) =>
        /\ ClosesOutermost(html) => EndedEarly(html, scanRes)
        /\ ~ClosesOutermost(html) => RanPast(html, scanRes)
        /\ ~(scanRes.error = "" /\ scanRes.endIndex = TrueEnd(html) + 1)

\* {'}'} was scanned: the result is {'}
C26_Witness ==
    /\ scanRes # NoResult /\ Stringed(html) /\ ClosesOutermost(html)
    /\ EndedEarly(html, scanRes) /\ scanRes.jsonLike = <<"{", "'", "}">>

\* {'{'} followed by } was scanned: the result is longer than the literal
C26_WitnessOpener ==
    /\ scanRes # NoResult /\ Stringed(html) /\ ~ClosesOutermost(html)
    /\ scanRes.error = "" /\ scanRes.jsonLike = <<"{", "'", "{", "'", "}", "}">>

\* C26 as stated: with an unmatched closer in a string the scan ends early
\* and returns a proper prefix with no error; with an unmatched opener it
\* runs past the literal's true end
C26_CloserEndsEarly ==
    (scanRes # NoResult /\ Stringed(html)) =>
        IF \E i \in StringDelimiters(html) : IsCloser(At(html, i))
        THEN EndedEarly(html, scanRes)
        ELSE RanPast(html, scanRes)

(***************************************************************************)
(* Reading the offset of a timestamp                                       *)
(***************************************************************************)
\* the instants at which the zone's wall clock shows the given date and time:
\* none in the hour skipped in spring, two in the hour repeated in autumn
InstantsOf(in) ==
    {u \in (DateUTC(in.day, in.h, in.m) - 180)..(DateUTC(in.day, in.h, in.m) - 120) :
        u + ZoneOffset(u) = DateUTC(in.day, in.h, in.m)}

\* ±HH:MM with an offset that a zone can have
OffsetWellFormed(o) == o.sign \in {-1, 1} /\ o.hh \in 0..23 /\ o.mm \in 0..59

(***************************************************************************)
(* C28: the offset suffix of the timestamp of toKyivIso is the offset of   *)
(* Europe/Kyiv in force at the instant that the given local date and time  *)
(* denotes, taken at the corrected instant and not at the provisional one, *)
(* and printed as sign, two digits of hours and two of minutes; the        *)
(* timestamp has the form YYYY-MM-DDTHH:MM:SS+HH:MM.                       *)
(***************************************************************************)
C28_OffsetInForce ==
    tout # NoTime =>
        /\ OffsetWellFormed(tout.offset)
        /\ OffsetMinutes(tout.offset) = ZoneOffset(zonedTimeToUtc(tin.day, tin.h, tin.m))
        /\ InstantsOf(tin) # {} =>
              \E u \in InstantsOf(tin) : OffsetMinutes(tout.offset) = ZoneOffset(u)
        /\ tout.h \in 0..23 /\ tout.m \in 0..59 /\ tout.s \in 0..59 /\ tout.day >= 0

\* on a runtime that prints midnight as hour 00 the suffix is the offset in
\* force, on every day of the calendar and on both transition days
SuffixRightOnH23 == (tout # NoTime /\ tin.midnight = 0) => C28_OffsetInForce

(***************************************************************************)
(* The groups specification: every array of up to MaxItems entries under a *)
(* group key, and some other data, then one call                           *)
(***************************************************************************)
MaxItems == 2

\* the properties of an entry that names the given ones, and a note
Fields(parts) ==
    [k \in EntryKeys |->
        IF k = "note" THEN Text
        ELSE IF \E q \in parts : q[1] = k THEN (CHOOSE q \in parts : q[1] = k)[2]
        ELSE None]

\* no date, a date under an alias, a text that is no date, two aliases at once
DateParts ==
    {{}, {<<"day", DateOf(3)>>}, {<<"date", Text>>},
     {<<"date", DateOf(1)>>, <<"d", DateOf(3)>>}}
\* no start, 8:00 and 0:00 under two aliases, and a start that is no time
\* standing before a `from` that is one
StartParts ==
    {{}, {<<"start", TimeOf(8, 0, 4)>>}, {<<"s", TimeOf(0, 0, 4)>>},
     {<<"start", Text>>, <<"from", TimeOf(8, 30, 5)>>}}
EndParts ==
    {{}, {<<"to", TimeOf(9, 30, 4)>>}, {<<"end", Text>>}}

GroupEntries ==
    {[kind |-> "object", f |-> Fields(dp \cup sp \cup ep), iso |-> <<>>] :
        dp \in DateParts, sp \in StartParts, ep \in EndParts}
    \cup {[kind |-> k, f |-> NoFields, iso |-> <<>>] : k \in {"array", "string", "null"}}

GroupData ==
    {[kind |-> "object", pairs |-> <<[key |-> "group", isArray |-> TRUE, items |-> a]>>] :
        a \in SeqsUpTo(GroupEntries, MaxItems)}
    \cup {[kind |-> "text", pairs |-> <<>>],
          [kind |-> "object", pairs |-> <<[key |-> "other", isArray |-> TRUE, items |-> <<>>]>>],
          [kind |-> "object",
           pairs |-> <<[key |-> "other", isArray |-> FALSE, items |-> <<>>],
                       [key |-> "group", isArray |-> FALSE, items |-> <<>>]>>]}

InitGroups ==
    /\ tin \in [data : GroupData, midnight : {0, 24}]
    /\ tout = NoTime
    /\ IdleScan /\ IdleParse /\ IdleRun /\ IdleBatch /\ IdleRest

ExtractGroups ==
    /\ tout = NoTime
    /\ tout' = extractGroupsWithIso(tin.data)
    /\ UNCHANGED <<tin, scanVars, parseVars, runVars, batchVars, restVars>>

NextGroups == ExtractGroups

SpecGroups == InitGroups /\ [][NextGroups]_vars

(***************************************************************************)
(* Reading the groups specification                                        *)
(***************************************************************************)
\* the entry is an object with a date and with a start and an end that read
\* H:MM or HH:MM, each under one of its aliases
Shaped(e) ==
    /\ e.kind = "object"
    /\ \E i \in 1..Len(DateKeys) : e.f[DateKeys[i]].t # "none"
    /\ \E i \in 1..Len(StartKeys) : e.f[StartKeys[i]].t = "time"
    /\ \E i \in 1..Len(EndKeys) : e.f[EndKeys[i]].t = "time"
\* o is {date, startLocal, endLocal} made of values of e
MadeFrom(o, e) ==
    /\ o.kind = "object" /\ Len(o.iso) = 2
    /\ \E i \in 1..Len(DateKeys) : o.f.date = e.f[DateKeys[i]] /\ o.f.date.t = "date"
    /\ \A k \in EntryKeys \ {"date"} : o.f[k] = None
GroupPairs(data) == SelectSeq(data.pairs, LAMBDA q : q.key = "group")

(***************************************************************************)
(* C27: extractGroupsWithIso replaces an entry of an array under a group   *)
(* key by {date, startLocal, endLocal} only when the entry is an object    *)
(* with a date and with a start and an end that read H:MM or HH:MM, under  *)
(* the accepted aliases; every other entry is kept as it is and where it   *)
(* is, and no entry makes the function fail.                               *)
(***************************************************************************)
C27_ShapeOnly ==
    (tout # NoTime /\ tin.data.kind = "object") =>
        LET ins == GroupPairs(tin.data)
        IN  /\ tout.kind \in {"object", "null"}
            /\ Len(tout.pairs) = Len(ins)
            /\ \A i \in 1..Len(ins) :
                  /\ tout.pairs[i].key = "group" /\ tout.pairs[i].isArray = ins[i].isArray
                  /\ Len(tout.pairs[i].items) = Len(ins[i].items)
                  /\ \A j \in 1..Len(ins[i].items) :
                        LET e == ins[i].items[j]
                            o == tout.pairs[i].items[j]
                        IN  /\ o # e => Shaped(e) /\ MadeFrom(o, e)
                            /\ ~Shaped(e) => o = e

\* a string followed by {day, from: 8:00 .., to}: the string is kept in the
\* first place and the object is replaced in the second
C27_Witness ==
    /\ tout # NoTime /\ tin.data.kind = "object" /\ tout.kind = "object"
    /\ Len(tout.pairs) = 1 /\ Len(tout.pairs[1].items) = 2
    /\ tin.data.pairs[1].items[1].kind = "string"
    /\ tout.pairs[1].items[1] = tin.data.pairs[1].items[1]
    /\ tin.data.pairs[1].items[2].f.start = TimeOf(8, 0, 4)
    /\ Len(tout.pairs[1].items[2].iso) = 2

\* an object with a start and an end whose date is no date, so that
\* toKyivIso throws, is kept as it is
C27_WitnessKept ==
    /\ tout # NoTime /\ tin.data.kind = "object" /\ tout.kind = "object"
    /\ Len(tout.pairs) = 1 /\ Len(tout.pairs[1].items) = 1
    /\ tin.data.pairs[1].items[1].f.date = Text
    /\ tin.data.pairs[1].items[1].f.start.t = "time"
    /\ tin.data.pairs[1].items[1].f.to.t = "time"
    /\ tout.pairs[1].items[1] = tin.data.pairs[1].items[1]

(***************************************************************************)
(* C29: every file the static server returns with status 200 lies under    *)
(* the served root directory: no request path, also none with `..`         *)
(* segments written plainly or percent-encoded, maps to a filesystem path  *)
(* outside the root.                                                       *)
(***************************************************************************)
C29_ServedUnderRoot ==
    \A i \in 1..Len(resp) : resp[i].status = 200 => Under(RootDir, req.abs)

\* the decoded path of the request has a `..` segment
HasDotDot(u) ==
    LET segs == SegmentsFrom(decodeURIComponent(Pathname(u)), 1, <<>>)
    IN  \E i \in 1..Len(segs) : segs[i] = <<".", ".">>

\* what does hold: a request whose decoded path has no `..` segment is
\* served from under the root
C29_PlainPathsStayUnder ==
    \A i \in 1..Len(resp) :
        (resp[i].status = 200 /\ ~HasDotDot(req.url)) => Under(RootDir, req.abs)

\* a file beside the root was served for a percent-encoded `..`
C29_Escaped ==
    /\ req.pc = "answered" /\ req.url = <<"/", "%2E", "%2E", "/", "n", ".", "txt">>
    /\ req.abs = <<"/", "p", "/", "n", ".", "txt">>
    /\ resp = <<Response(200, "application/octet-stream", "d1")>>

(***************************************************************************)
(* The loop over the data files (batch_render.mjs 235-236, 272-390)        *)
(*                                                                         *)
(* A run finds up to MaxFiles data files in data/.  Their names differ,    *)
(* so their stems differ: the i-th file's stem is i times the symbol "s".  *)
(* What stands in a file is free: its regionId may be another file's       *)
(* regionId or stem.  The --region argument is the run's, the same for     *)
(* every file.  dfile holds the list of the files, made the tasks of the   *)
(* whole loop.                                                             *)
(***************************************************************************)
MaxFiles == 2
StemOf(i) == [j \in 1..i |-> "s"]

FileContents ==
    [kind : {"json"}, fact : {TRUE}, preset : {"data"},
     regionId : {<<>>, <<"r">>, <<"s">>},
     keys : { <<<<"G", "1", ".", "1">>>>,
              <<<<"G", "1", ".", "1">>, <<"g", "1", ".", "1">>>>,
              <<<<"G", "1", ".", "2">>, <<"G", "1", ".", "1">>>>,
              <<<<"x", "1", ".", "1">>>> }]
        \cup [kind : {"bad"}, fact : {FALSE}, preset : {"null"}, regionId : {<<>>}, keys : {<<>>}]

\* lines 235-236, 273: the i-th file of the listing, under the run's --region
FileAt(i, c, only) ==
    [kind |-> c.kind, fact |-> c.fact, preset |-> c.preset, regionId |-> c.regionId,
     keys |-> c.keys, stem |-> StemOf(i), only |-> only]

FileLists ==
    UNION {{[i \in 1..n |-> FileAt(i, c[i], only)] : c \in [1..n -> FileContents]} :
              n \in 1..MaxFiles, only \in {<<>>, <<"r">>, <<"s">>}}

\* line 272: for (const jf of jsonFiles), the tasks pushed in the order of the files
RECURSIVE ExpandFiles(_)
ExpandFiles(jsonFiles) ==
    IF jsonFiles = <<>> THEN <<>>
    ELSE ExpandFile(Head(jsonFiles)) \o ExpandFiles(Tail(jsonFiles))

InitFiles ==
    /\ dfile \in FileLists
    /\ made = NoTasks
    /\ IdleCore /\ IdleRender /\ IdleServer

ExpandAll ==
    /\ ~made.done
    /\ made' = [done |-> TRUE, tasks |-> ExpandFiles(dfile)]
    /\ UNCHANGED <<dfile, coreVars, renderVars, serverVars>>

NextFiles == ExpandAll

SpecFiles == InitFiles /\ [][NextFiles]_vars

(***************************************************************************)
(* C30: within one batch run no two render tasks write to the same output  *)
(* path: the output path is an injective function of (region record,       *)
(* template, group or day), also for group keys that differ only in letter *)
(* case and for two data files that resolve to the same regionId.          *)
(***************************************************************************)
C30_DistinctOutputs ==
    \A i, j \in 1..Len(made.tasks) : i # j => made.tasks[i].out # made.tasks[j].out

\* what does hold: two tasks of a run write to one path only when they have
\* the same resolved region, template and day and their keys carry the same
\* group numbers
C30_CollisionsOnly ==
    \A i, j \in 1..Len(made.tasks) :
        made.tasks[i].out = made.tasks[j].out =>
            /\ made.tasks[i].region = made.tasks[j].region
            /\ made.tasks[i].template = made.tasks[j].template
            /\ made.tasks[i].day = made.tasks[j].day
            /\ GpvMatch(made.tasks[i].gpv) = GpvMatch(made.tasks[j].gpv)

\* one file with the keys GPV1.1 and gpv1.1: both full renders go to one path
C30_SameFileCollision ==
    /\ made.done /\ Len(dfile) = 1 /\ Len(made.tasks) = 10
    /\ made.tasks[1].gpv # made.tasks[5].gpv
    /\ made.tasks[1].out = made.tasks[5].out

\* two files, the second naming the first's stem as its regionId: the views
\* of all groups of both go to one path
C30_TwoFilesCollision ==
    /\ made.done /\ Len(dfile) = 2 /\ Len(made.tasks) = 12
    /\ dfile[1].regionId = <<>> /\ dfile[2].regionId = dfile[1].stem
    /\ made.tasks[5].out = made.tasks[11].out

(***************************************************************************)
(* The batch run from the listing to the exit (batch_render.mjs 272-417)   *)
(*                                                                         *)
(* The loop over the data files makes the tasks; runParallel calls every   *)
(* wrapped task once and the wrapper counts its outcome (lines 398-407),   *)
(* whatever the interleaving, so the tasks are taken here one after the    *)
(* other; then the browser and the server are closed and the process       *)
(* exits.  result holds the data files a failed task was rendering.  A     *)
(* file has one group key or one key that does not match, or lacks fact or *)
(* preset or preset.data, or cannot be read or parsed.                     *)
(***************************************************************************)
MainContents ==
    [kind : {"json"}, fact : {TRUE}, preset : {"data"}, regionId : {<<>>, <<"r">>},
     keys : {<<<<"G", "1", ".", "1">>>>, <<<<"x", "1", ".", "1">>>>}]
        \cup [kind : {"json"}, fact : {FALSE}, preset : {"data"}, regionId : {<<>>},
              keys : {<<<<"G", "1", ".", "1">>>>}]
        \cup [kind : {"json"}, fact : {TRUE}, preset : {"null", "nodata"}, regionId : {<<>>},
              keys : {<<>>}]
        \cup [kind : {"bad"}, fact : {FALSE}, preset : {"null"}, regionId : {<<>>}, keys : {<<>>}]

MainLists ==
    UNION {{[i \in 1..n |-> FileAt(i, c[i], only)] : c \in [1..n -> MainContents]} :
              n \in 1..MaxFiles, only \in {<<>>, <<"r">>, <<"s">>}}

InitMain ==
    /\ dfile \in MainLists
    /\ made = NoTasks
    /\ mpc = "loop" /\ nextTask = 1 /\ task = <<>> /\ executing = <<>>
    /\ race = [state |-> "none", among |-> {}]
    /\ result = {}
    /\ counts = [ok |-> 0, failed |-> 0, calls |-> <<>>]
    /\ browser = [state |-> "open", server |-> "listening", closes |-> 0,
                  thrown |-> FALSE, exit |-> -1]
    /\ IdleScan /\ IdleParse /\ IdleTime /\ IdleRun /\ IdleRender /\ IdleServer

\* lines 398-407: a wrapped task runs to its end and counts its outcome
RunTask(outcome) ==
    /\ made.done /\ mpc = "loop" /\ nextTask <= Len(made.tasks)
    /\ counts' = IF outcome = "ok" THEN [counts EXCEPT !.ok = @ + 1]
                 ELSE [counts EXCEPT !.failed = @ + 1]
    /\ result' = IF outcome = "ok" THEN result ELSE result \cup {made.tasks[nextTask].json}
    /\ nextTask' = nextTask + 1
    /\ UNCHANGED <<mpc, task, executing, race, browser,
                   scanVars, parseVars, timeVars, runVars, restVars>>

\* lines 409-417: runParallel is over, also at once for no tasks; the
\* browser and the server are closed and the process exits
ExitMain ==
    /\ made.done /\ mpc = "loop" /\ nextTask > Len(made.tasks)
    /\ mpc' = "exited"
    /\ browser' = [browser EXCEPT !.state = "closed", !.closes = @ + 1, !.server = "closed",
                                  !.exit = ExitStatus(counts.failed)]
    /\ UNCHANGED <<nextTask, task, result, executing, race, counts,
                   scanVars, parseVars, timeVars, runVars, restVars>>

NextMain ==
    \/ ExpandAll
    \/ \E outcome \in {"ok", "failed"} : RunTask(outcome)
    \/ ExitMain

SpecMain == InitMain /\ [][NextMain]_vars

\* the file is one of those the loop passes over: it cannot be read or
\* parsed, its record lacks fact or preset, the region filter excludes it,
\* or no key under preset.data has the form GPV<major>.<minor>
PassedOver(f) == ~Eligible(f) \/ GroupKeys(f) = {}
TasksOf(f) == {k \in 1..Len(made.tasks) : made.tasks[k].json = f.stem}

(***************************************************************************)
(* C31: a data file that cannot be read or parsed at scheduling time, or   *)
(* whose record lacks fact or preset, is excluded by the region filter, or *)
(* has no group key matching the pattern, contributes no tasks at all (not *)
(* even the two views of all groups) and no failure count, so it never     *)
(* makes the batch exit status nonzero: the tasks are those of the other   *)
(* files, every failure counted is a failure of a task of another file,    *)
(* and the status is nonzero only when such a task failed.                 *)
(***************************************************************************)
C31_PassedOverAddsNothing ==
    /\ \A i \in 1..Len(dfile) :
          PassedOver(dfile[i]) => (TasksOf(dfile[i]) = {} /\ dfile[i].stem \notin result)
    /\ made.done =>
          made.tasks = ExpandFiles(SelectSeq(dfile, LAMBDA f : ~PassedOver(f)))
    /\ counts.ok + counts.failed = nextTask - 1
    /\ counts.failed > 0 <=> result # {}
    /\ mpc = "exited" =>
          /\ browser.exit = (IF result = {} THEN 0 ELSE 1)
          /\ (\A i \in 1..Len(dfile) : PassedOver(dfile[i])) =>
                (made.tasks = <<>> /\ counts.failed = 0 /\ browser.exit = 0)

\* two files, the first unreadable, the second with one group: its six
\* tasks ran, one failed, and the status is 1 on account of the second file
C31_Witness ==
    /\ mpc = "exited" /\ Len(dfile) = 2
    /\ dfile[1].kind = "bad" /\ ~PassedOver(dfile[2])
    /\ Len(made.tasks) = 6 /\ counts.failed = 1 /\ counts.ok = 5
    /\ result = {dfile[2].stem} /\ browser.exit = 1

\* two files, one excluded by --region and one with no matching key: no
\* task, no failure, status 0
C31_WitnessNothingToDo ==
    /\ mpc = "exited" /\ Len(dfile) = 2 /\ dfile[1].only = <<"r">>
    /\ dfile[1].kind = "json" /\ dfile[1].fact /\ dfile[1].preset = "data"
    /\ dfile[1].regionId = <<>> /\ GroupKeys(dfile[1]) # {}
    /\ dfile[2].regionId = <<"r">> /\ dfile[2].preset = "data" /\ GroupKeys(dfile[2]) = {}
    /\ made.tasks = <<>> /\ counts.failed = 0 /\ browser.exit = 0

=============================================================================
